---- MODULE Spec2Model ----
(***************************************************************************)
(* Model of the backend-example services of the repository:                *)
(*   websocket_service.py  ConnectionManager, RealTimeDataService          *)
(*   cache_service.py      MemoryCache, DataAggregator                     *)
(*   error_handler.py      CircuitBreaker                                  *)
(* All code runs on one asyncio event loop: a step of the model is the     *)
(* code a task runs between two suspension points (await).                 *)
(***************************************************************************)
EXTENDS Integers, FiniteSets, Sequences, TLC

(***************************************************************************)
(* Bounds of the model.                                                    *)
(***************************************************************************)
NumUsers == 2
NumSockets == 2
MaxMessages == 3
NumCallers == 3
MaxTime == 4
Epoch == 10
Ttl == 1
MaxInflight == 2
MaxFailureCount == 7
MaxRetries == 6
MaxBaseDelay == 2
MaxFactor == 2
MaxDelayCap == 3
MaxArgs == 1
MaxKwargs == 2
MaxStartCalls == 2
MaxTicks == 2
NumClients == 1

Users == 1..NumUsers
Sockets == 1..NumSockets
Symbols == {"BTC", "ETH"}
Callers == 1..NumCallers
Keys == {"k1", "k2"}
NoUser == 0
NoSocket == 0

VARIABLES
    active_connections,   \* ConnectionManager.active_connections: user -> session
    symbol_subscribers,   \* ConnectionManager.symbol_subscribers: symbol -> set of users
    notification_history, \* ConnectionManager.notification_history: user -> symbol -> time
    ws_open,              \* transport: TRUE while a write on the socket succeeds
    handler,              \* websocket_endpoint task of each socket
    msgs,                 \* number of client messages received so far
    bc,                   \* the task running broadcast_to_subscribers
    now,                  \* time.time(), in ticks
    cache,                \* MemoryCache.cache of the 'market_data' cache
    pending_requests,     \* DataAggregator.pending_requests: keys with an Event
    request_results,      \* DataAggregator.request_results: key -> value
    caller,               \* the tasks calling get_aggregated_data
    flights,              \* outcome of each fetch_func() call so far
    cb_state,             \* CircuitBreaker.state
    failure_count,        \* CircuitBreaker.failure_count
    last_failure_time,    \* CircuitBreaker.last_failure_time
    inflight,             \* calls suspended in `await func()`, by entry state
    cb_event,             \* what the latest step of a call did
    streak,               \* failures since the latest successful call
    al,                   \* the task running _check_volume_alerts
    sent_at,              \* (user, symbol) -> time of the latest alert dispatched
    cn_call,              \* the latest can_send_notification call and its result
    granted_now,          \* (user, symbol) -> calls that returned True at time `now`
    an,                   \* the _get_volume_analysis call: its window and threshold
    verdict,              \* what _get_volume_analysis returned
    rt,                   \* the task running retry_with_backoff
    cache_call,           \* the latest MemoryCache.get / set call made directly
    ck,                   \* the latest get_cache_key calls: arguments and keys
    is_running,           \* RealTimeDataService.is_running
    start_calls,          \* number of start() calls so far
    spawned,              \* tasks created by start(): price and alert loops
    pl,                   \* the task running _update_price_data
    vl,                   \* the task running _check_volume_alerts
    received,             \* user -> symbol -> ticks of the price_updates received
    loops                 \* the loop tasks created by start(), oldest first

regVars == <<active_connections, symbol_subscribers, notification_history,
             ws_open, handler, msgs, bc>>

aggVars == <<cache, pending_requests, request_results, caller, flights>>

cbVars == <<cb_state, failure_count, last_failure_time, inflight, cb_event,
            streak>>

alVars == <<al, sent_at>>

cnVars == <<cn_call, granted_now>>

anVars == <<an, verdict>>

rtVars == <<rt>>

mcVars == <<cache_call>>

ckVars == <<ck>>

svVars == <<is_running, start_calls, spawned, pl, vl, received>>

rsVars == <<loops>>

moreVars == <<ckVars, svVars, rsVars>>

extVars == <<cnVars, anVars, rtVars, mcVars, moreVars>>

vars == <<regVars, now, aggVars, cbVars, alVars, extVars>>

(***************************************************************************)
(* ConnectionManager: pure helpers over the three maps.                    *)
(***************************************************************************)
EmptyMap == [x \in {} |-> {}]

MapPut(f, k, v) == [x \in (DOMAIN f) \cup {k} |-> IF x = k THEN v ELSE f[x]]

MapDel(f, k) == [x \in (DOMAIN f) \ {k} |-> f[x]]

DiscardKeepingEmpty(ss, subs, u) ==
    [S \in DOMAIN ss |-> IF S \in subs THEN ss[S] \ {u} ELSE ss[S]]

\* set.discard(user) on symbol_subscribers[symbol] for every symbol of `subs`
\* that is a key, followed by `del` of the entry when the set became empty.
DiscardFromIndex(ss, subs, u) ==
    [S \in {T \in DOMAIN ss : ~(T \in subs /\ ss[T] \ {u} = {})} |->
        IF S \in subs THEN ss[S] \ {u} ELSE ss[S]]

\* disconnect(user_id): the three maps after the call.
DisconnectIndex(ac, ss, u) ==
    IF u \in DOMAIN ac THEN DiscardFromIndex(ss, ac[u].subscriptions, u) ELSE ss

DisconnectConns(ac, u) ==
    IF u \in DOMAIN ac THEN MapDel(ac, u) ELSE ac

DisconnectHistoryKept(ac, nh, u) == nh

DisconnectHistory(ac, nh, u) ==
    IF u \in DOMAIN ac /\ u \in DOMAIN nh THEN MapDel(nh, u) ELSE nh

\* connect(): the session stored for the user after websocket.accept().
NewSession(ws) == [websocket |-> ws, subscriptions |-> {}]

ConnectConns(ac, u, ws) == MapPut(ac, u, NewSession(ws))

\* subscribe_symbol(user_id, symbol)
SubscribeConns(ac, u, S) ==
    IF u \in DOMAIN ac
    THEN [ac EXCEPT ![u].subscriptions = @ \cup {S}]
    ELSE ac

SubscribeIndex(ac, ss, u, S) ==
    IF u \in DOMAIN ac
    THEN MapPut(ss, S, (IF S \in DOMAIN ss THEN ss[S] ELSE {}) \cup {u})
    ELSE ss

\* unsubscribe_symbol(user_id, symbol)
UnsubscribeConns(ac, u, S) ==
    IF u \in DOMAIN ac
    THEN [ac EXCEPT ![u].subscriptions = @ \ {S}]
    ELSE ac

UnsubscribeIndex(ac, ss, u, S) ==
    IF u \in DOMAIN ac THEN DiscardFromIndex(ss, {S}, u) ELSE ss

(***************************************************************************)
(* The iterator of `for user_id in self.symbol_subscribers[symbol]`.       *)
(* A Python set iterator remembers the size of the set object it was made  *)
(* on and raises RuntimeError ("Set changed size during iteration") on the *)
(* next step when the size differs.  `detached` records that the entry was *)
(* deleted from the dict meanwhile: the iterator still holds the old set   *)
(* object, now empty.  `touched` holds the users added to or removed from  *)
(* the set during the iteration: the order of a set is unspecified, so an  *)
(* element added meanwhile may or may not be visited.                      *)
(***************************************************************************)
Iterating(b) == b.pc \in {"iter", "sending"}

IdleBroadcast ==
    [pc |-> "idle", symbol |-> "", si_used |-> 0, visited |-> {},
     detached |-> FALSE, touched |-> {}, cur |-> NoUser, target |-> NoSocket,
     snapshot |-> {}, delivered |-> {}, failed |-> {}, raised |-> FALSE]

NoteIndexChange(b, ssOld, ssNew) ==
    IF ~Iterating(b) \/ b.detached \/ b.symbol \notin DOMAIN ssOld THEN b
    ELSE IF b.symbol \notin DOMAIN ssNew THEN [b EXCEPT !.detached = TRUE]
    ELSE [b EXCEPT !.touched = @ \cup ((ssOld[b.symbol] \ ssNew[b.symbol])
                                       \cup (ssNew[b.symbol] \ ssOld[b.symbol]))]

\* The size the iterator sees on its set object.
IterSetSize(b, ss) ==
    IF b.detached \/ b.symbol \notin DOMAIN ss THEN 0
    ELSE Cardinality(ss[b.symbol])

IterChangedSize(b, ss) == IterSetSize(b, ss) # b.si_used

\* The elements the iterator can still yield.
IterRemaining(b, ss) ==
    IF b.detached \/ b.symbol \notin DOMAIN ss THEN {}
    ELSE ss[b.symbol] \ b.visited

\* The broadcast runs from one await to the next without yielding to the
\* event loop: the other tasks run only while it is suspended in a send, or
\* outside its for loop.
Yielded(b) == b.pc # "iter"

(***************************************************************************)
(* websocket_endpoint (main.py): one task per socket.                      *)
(*   pc = "idle"     not yet connected                                     *)
(*   pc = "sending"  suspended in websocket.send_text of                   *)
(*                   send_personal_message (connection ack or reply)       *)
(*   pc = "recv"     suspended in websocket.receive_text                   *)
(*   pc = "closed"   the endpoint has returned                             *)
(***************************************************************************)
IdleHandler == [pc |-> "idle", user |-> NoUser, target |-> NoSocket]

ClosedHandler == [pc |-> "closed", user |-> NoUser, target |-> NoSocket]

\* send_personal_message up to its await: the socket looked up for the user,
\* or no send at all when the user has no session.
SendStart(h, ac, u) ==
    IF u \in DOMAIN ac
    THEN [h EXCEPT !.pc = "sending", !.target = ac[u].websocket]
    ELSE [h EXCEPT !.pc = "recv", !.target = NoSocket]

\* The three maps and the iterator after disconnect(u).
ApplyDisconnect(u) ==
    /\ active_connections' = DisconnectConns(active_connections, u)
    /\ symbol_subscribers' =
           DisconnectIndex(active_connections, symbol_subscribers, u)
    /\ notification_history' =
           DisconnectHistory(active_connections, notification_history, u)

\* connect(websocket, user_id), called first by websocket_endpoint.
Connect(ws, u) ==
    /\ Yielded(bc)
    /\ handler[ws].pc = "idle"
    /\ \A w \in Sockets : w < ws => handler[w].pc # "idle"
    /\ IF ws_open[ws]
       THEN /\ active_connections' = ConnectConns(active_connections, u, ws)
            /\ handler' = [handler EXCEPT ![ws] =
                   SendStart([IdleHandler EXCEPT !.user = u],
                             active_connections', u)]
            /\ UNCHANGED <<symbol_subscribers, notification_history, bc>>
       ELSE \* websocket.accept() raises: the endpoint's handler disconnects
            /\ ApplyDisconnect(u)
            /\ bc' = NoteIndexChange(bc, symbol_subscribers, symbol_subscribers')
            /\ handler' = [handler EXCEPT ![ws] = ClosedHandler]
    /\ UNCHANGED <<ws_open, msgs>>

\* The pending websocket.send_text of a handler completes.
HandlerSendDone(ws) ==
    /\ Yielded(bc)
    /\ handler[ws].pc = "sending"
    /\ IF ws_open[handler[ws].target]
       THEN UNCHANGED <<active_connections, symbol_subscribers,
                        notification_history, bc>>
       ELSE /\ ApplyDisconnect(handler[ws].user)
            /\ bc' = NoteIndexChange(bc, symbol_subscribers, symbol_subscribers')
    /\ handler' = [handler EXCEPT ![ws].pc = "recv", ![ws].target = NoSocket]
    /\ UNCHANGED <<ws_open, msgs>>

\* {"type": "subscribe", "symbol": S}
ReceiveSubscribe(ws, S) ==
    /\ Yielded(bc)
    /\ handler[ws].pc = "recv"
    /\ ws_open[ws]
    /\ msgs < MaxMessages
    /\ msgs' = msgs + 1
    /\ LET u == handler[ws].user IN
       /\ active_connections' = SubscribeConns(active_connections, u, S)
       /\ symbol_subscribers' =
              SubscribeIndex(active_connections, symbol_subscribers, u, S)
       /\ handler' = [handler EXCEPT ![ws] = SendStart(@, active_connections', u)]
    /\ bc' = NoteIndexChange(bc, symbol_subscribers, symbol_subscribers')
    /\ UNCHANGED <<notification_history, ws_open>>

\* {"type": "unsubscribe", "symbol": S}
ReceiveUnsubscribe(ws, S) ==
    /\ Yielded(bc)
    /\ handler[ws].pc = "recv"
    /\ ws_open[ws]
    /\ msgs < MaxMessages
    /\ msgs' = msgs + 1
    /\ LET u == handler[ws].user IN
       /\ active_connections' = UnsubscribeConns(active_connections, u, S)
       /\ symbol_subscribers' =
              UnsubscribeIndex(active_connections, symbol_subscribers, u, S)
       /\ handler' = [handler EXCEPT ![ws] = SendStart(@, active_connections', u)]
    /\ bc' = NoteIndexChange(bc, symbol_subscribers, symbol_subscribers')
    /\ UNCHANGED <<notification_history, ws_open>>

\* {"type": "ping"}
ReceivePing(ws) ==
    /\ Yielded(bc)
    /\ handler[ws].pc = "recv"
    /\ ws_open[ws]
    /\ msgs < MaxMessages
    /\ msgs' = msgs + 1
    /\ handler' = [handler EXCEPT ![ws] =
           SendStart(@, active_connections, handler[ws].user)]
    /\ UNCHANGED <<active_connections, symbol_subscribers,
                   notification_history, ws_open, bc>>

\* websocket.receive_text raises WebSocketDisconnect: disconnect(user_id).
ReceiveClosed(ws) ==
    /\ Yielded(bc)
    /\ handler[ws].pc = "recv"
    /\ ~ws_open[ws]
    /\ ApplyDisconnect(handler[ws].user)
    /\ bc' = NoteIndexChange(bc, symbol_subscribers, symbol_subscribers')
    /\ handler' = [handler EXCEPT ![ws] = ClosedHandler]
    /\ UNCHANGED <<ws_open, msgs>>

\* The peer goes away: from now on reads and writes on the socket raise.
TransportBreak(ws) ==
    /\ ws_open[ws]
    /\ handler[ws].pc # "closed"
    /\ ws_open' = [ws_open EXCEPT ![ws] = FALSE]
    /\ UNCHANGED <<active_connections, symbol_subscribers,
                   notification_history, handler, msgs, bc>>

(***************************************************************************)
(* broadcast_to_subscribers(symbol, message), run by the price loop.       *)
(*   pc = "idle"     no broadcast yet                                      *)
(*   pc = "iter"     between two steps of the for loop                     *)
(*   pc = "sending"  suspended in websocket.send_text for user `cur`       *)
(*   pc = "ended"    the call returned, or raised when `raised`            *)
(* snapshot, delivered and failed record the call for the properties:      *)
(* the subscribers indexed when it began, those whose socket took the      *)
(* payload, and those whose write raised.                                  *)
(***************************************************************************)
Ended(b, raised) ==
    [IdleBroadcast EXCEPT !.pc = "ended", !.symbol = b.symbol,
                          !.snapshot = b.snapshot, !.delivered = b.delivered,
                          !.failed = b.failed, !.raised = raised]

BroadcastStart(S) ==
    /\ bc.pc \in {"idle", "ended"}
    /\ bc' = IF S \in DOMAIN symbol_subscribers
             THEN [IdleBroadcast EXCEPT
                      !.pc = "iter", !.symbol = S,
                      !.si_used = Cardinality(symbol_subscribers[S]),
                      !.snapshot = symbol_subscribers[S]]
             ELSE [IdleBroadcast EXCEPT !.pc = "ended", !.symbol = S]
    /\ UNCHANGED <<active_connections, symbol_subscribers,
                   notification_history, ws_open, handler, msgs>>

\* next() on the set iterator raises: the RuntimeError leaves the for loop
\* and broadcast_to_subscribers, which has no handler around the loop.
BroadcastRaise ==
    /\ bc.pc = "iter"
    /\ IterChangedSize(bc, symbol_subscribers)
    /\ bc' = Ended(bc, TRUE)
    /\ UNCHANGED <<active_connections, symbol_subscribers,
                   notification_history, ws_open, handler, msgs>>

\* next() yields user u: send_personal_message(message, u) up to its await.
BroadcastNext(u) ==
    /\ bc.pc = "iter"
    /\ ~IterChangedSize(bc, symbol_subscribers)
    /\ u \in IterRemaining(bc, symbol_subscribers)
    /\ bc' = IF u \in DOMAIN active_connections
             THEN [bc EXCEPT !.pc = "sending", !.cur = u,
                             !.visited = @ \cup {u},
                             !.target = active_connections[u].websocket]
             ELSE [bc EXCEPT !.visited = @ \cup {u}]
    /\ UNCHANGED <<active_connections, symbol_subscribers,
                   notification_history, ws_open, handler, msgs>>

\* The iterator is exhausted; disconnected_users is empty, because
\* send_personal_message never raises, so the cleanup loop does nothing.
\* Elements added during the iteration may have been skipped.
BroadcastFinish ==
    /\ bc.pc = "iter"
    /\ ~IterChangedSize(bc, symbol_subscribers)
    /\ IterRemaining(bc, symbol_subscribers) \subseteq bc.touched
    /\ bc' = Ended(bc, FALSE)
    /\ UNCHANGED <<active_connections, symbol_subscribers,
                   notification_history, ws_open, handler, msgs>>

\* The pending websocket.send_text of the broadcast completes; on failure
\* send_personal_message calls disconnect(user_id).
BroadcastSendDone ==
    /\ bc.pc = "sending"
    /\ IF ws_open[bc.target]
       THEN /\ bc' = [bc EXCEPT !.pc = "iter", !.cur = NoUser,
                                !.target = NoSocket,
                                !.delivered = @ \cup {bc.cur}]
            /\ UNCHANGED <<active_connections, symbol_subscribers,
                           notification_history>>
       ELSE /\ ApplyDisconnect(bc.cur)
            /\ bc' = [NoteIndexChange(bc, symbol_subscribers, symbol_subscribers')
                        EXCEPT !.pc = "iter", !.cur = NoUser,
                               !.target = NoSocket,
                               !.failed = @ \cup {bc.cur}]
    /\ UNCHANGED <<ws_open, handler, msgs>>

(***************************************************************************)
(* MemoryCache.get / MemoryCache.set of cache_service.py.  A value is the  *)
(* number of the fetch that produced it; None stands for Python's None.    *)
(***************************************************************************)
None == 0

IsExpiredLate(item, t) == t > item.expires_at + 1

\* _is_expired(item): time.time() > item['expires_at']
IsExpired(item, t) == t > item.expires_at

\* get(key): the value returned.
CacheGet(c, k, t) ==
    IF k \notin DOMAIN c THEN None
    ELSE IF IsExpired(c[k], t) THEN None
    ELSE c[k].value

\* get(key): the cache after the call (an expired entry is deleted).
CacheAfterGet(c, k, t) ==
    IF k \in DOMAIN c /\ IsExpired(c[k], t) THEN MapDel(c, k) ELSE c

CacheSetNoTtl(c, k, v, t, ttl) == MapPut(c, k, [value |-> v, expires_at |-> t - 1])

\* set(key, value, ttl): expires_at = time.time() + ttl.  The sweep run when
\* len(cache) % 100 == 0 needs 100 entries and is beyond the model's keys.
CacheSet(c, k, v, t, ttl) == MapPut(c, k, [value |-> v, expires_at |-> t + ttl])

(***************************************************************************)
(* DataAggregator.get_aggregated_data(key, fetch_func, ttl).               *)
(*   pc = "idle"      not called yet                                       *)
(*   pc = "fetching"  suspended in `await fetch_func()`                    *)
(*   pc = "waiting"   suspended in `await self.pending_requests[key]       *)
(*                    .wait()`, the Event not set                          *)
(*   pc = "woken"     the Event was set; the task is ready to run          *)
(*   pc = "returned"  the call returned `result`                           *)
(*   pc = "raised"    the call raised the fetch's exception                *)
(* flight is the number of the fetch the caller started or waited for.     *)
(***************************************************************************)
IdleCaller == [pc |-> "idle", key |-> "", result |-> None, flight |-> 0]

\* The fetch in flight for key k, if any.
FlightOf(k) ==
    LET fs == {caller[t].flight : t \in {x \in Callers :
                   caller[x].pc = "fetching" /\ caller[x].key = k}}
    IN IF fs = {} THEN 0 ELSE CHOOSE f \in fs : TRUE

WakeNoWaiters(c, k) == c

\* Event.set(): every task waiting on the key's Event becomes ready.
WakeWaiters(c, k) ==
    [t \in Callers |->
        IF c[t].pc = "waiting" /\ c[t].key = k
        THEN [c[t] EXCEPT !.pc = "woken"] ELSE c[t]]

\* The call up to its first await (or its return on a cache hit).
AggCall(t, k) ==
    /\ caller[t].pc = "idle"
    /\ \A x \in Callers : x < t => caller[x].pc # "idle"
    /\ cache' = CacheAfterGet(cache, k, now)
    /\ LET cached_result == CacheGet(cache, k, now) IN
       IF cached_result # None
       THEN /\ caller' = [caller EXCEPT ![t] =
                   [pc |-> "returned", key |-> k, result |-> cached_result,
                    flight |-> 0]]
            /\ UNCHANGED <<pending_requests, flights>>
       ELSE IF k \in pending_requests
       THEN /\ caller' = [caller EXCEPT ![t] =
                   [pc |-> "waiting", key |-> k, result |-> None,
                    flight |-> FlightOf(k)]]
            /\ UNCHANGED <<pending_requests, flights>>
       ELSE /\ pending_requests' = pending_requests \cup {k}
            /\ flights' = Append(flights, "running")
            /\ caller' = [caller EXCEPT ![t] =
                   [pc |-> "fetching", key |-> k, result |-> None,
                    flight |-> Len(flights) + 1]]
    /\ UNCHANGED <<request_results, now>>

\* fetch_func() returns: cache.set, request_results[key] = result, Event.set,
\* return; the finally clause deletes both entries of the key before any
\* waiter runs.
FetchReturns(t) ==
    /\ caller[t].pc = "fetching"
    /\ LET k == caller[t].key
           result == caller[t].flight
       IN /\ cache' = CacheSet(cache, k, result, now, Ttl)
          /\ caller' = [WakeWaiters(caller, k) EXCEPT
                           ![t].pc = "returned", ![t].result = result]
          /\ pending_requests' = pending_requests \ {k}
          /\ request_results' = MapDel(MapPut(request_results, k, result), k)
          /\ flights' = [flights EXCEPT ![caller[t].flight] = "returned"]
    /\ UNCHANGED now

\* fetch_func() raises: Event.set, raise; the finally clause as above.
FetchRaises(t) ==
    /\ caller[t].pc = "fetching"
    /\ LET k == caller[t].key IN
          /\ caller' = [WakeWaiters(caller, k) EXCEPT ![t].pc = "raised"]
          /\ pending_requests' = pending_requests \ {k}
          /\ request_results' = MapDel(request_results, k)
          /\ flights' = [flights EXCEPT ![caller[t].flight] = "raised"]
    /\ UNCHANGED <<cache, now>>

\* A woken waiter runs: return self.request_results.get(key)
WaiterResumes(t) ==
    /\ caller[t].pc = "woken"
    /\ caller' = [caller EXCEPT
           ![t].pc = "returned",
           ![t].result = IF caller[t].key \in DOMAIN request_results
                         THEN request_results[caller[t].key] ELSE None]
    /\ UNCHANGED <<cache, pending_requests, request_results, flights, now>>

\* Time passes.
Tick ==
    /\ now < Epoch + MaxTime
    /\ now' = now + 1

AggInit ==
    /\ cache = EmptyMap
    /\ pending_requests = {}
    /\ request_results = EmptyMap
    /\ caller = [t \in Callers |-> IdleCaller]
    /\ flights = <<>>

(***************************************************************************)
(* MemoryCache.get and MemoryCache.set called on their own, as time        *)
(* passes.  cache_call records the latest call: for a get its result and   *)
(* whether the key had an entry before the call.                           *)
(***************************************************************************)
Values == 1..NumCallers

NoCacheCall == [op |-> "none", key |-> "", result |-> None, had |-> FALSE]

CacheGetCall(k) ==
    /\ cache' = CacheAfterGet(cache, k, now)
    /\ cache_call' = [op |-> "get", key |-> k,
                      result |-> CacheGet(cache, k, now),
                      had |-> k \in DOMAIN cache]
    /\ UNCHANGED <<pending_requests, request_results, caller, flights, now>>

CacheSetCall(k, v, ttl) ==
    /\ cache' = CacheSet(cache, k, v, now, ttl)
    /\ cache_call' = [op |-> "set", key |-> k, result |-> None, had |-> FALSE]
    /\ UNCHANGED <<pending_requests, request_results, caller, flights, now>>

CacheTick ==
    /\ Tick
    /\ cache_call' = NoCacheCall
    /\ UNCHANGED aggVars

McInit == cache_call = NoCacheCall

(***************************************************************************)
(* CircuitBreaker of error_handler.py.  call(func) runs up to `await       *)
(* func()` in one step and from there to its end in another; meanwhile     *)
(* other calls may enter and leave.  A call in flight is tagged with how   *)
(* it entered:                                                             *)
(*   "CLOSED"     state was CLOSED                                         *)
(*   "PROBE"      state was OPEN, the cool-down had elapsed and the call   *)
(*                moved the breaker to HALF_OPEN                           *)
(*   "HALF_OPEN"  state was already HALF_OPEN                              *)
(* Time is counted in ticks from Epoch, the time.time() of the start;       *)
(* `timeout` is the cool-down in ticks.                                    *)
(***************************************************************************)
failure_threshold == 5
timeout == 2

Tags == {"CLOSED", "PROBE", "HALF_OPEN"}

NoEvent == [kind |-> "none", tag |-> "none"]

InflightTotal == inflight["CLOSED"] + inflight["PROBE"] + inflight["HALF_OPEN"]

ShouldAttemptResetStrict(lft, t) ==
    IF lft = None THEN TRUE ELSE t - lft > timeout

\* _should_attempt_reset()
ShouldAttemptReset(lft, t) ==
    IF lft = None THEN TRUE ELSE t - lft >= timeout

RejectsInverted(st, lft, t) == st = "OPEN" /\ ShouldAttemptReset(lft, t)

\* call(): whether the call is rejected with HTTPException(503) before the
\* wrapped function is invoked.
Rejects(st, lft, t) == st = "OPEN" /\ ~ShouldAttemptReset(lft, t)

\* call(): the state after the check at its head.
StateOnEntry(st, lft, t) ==
    IF st = "OPEN" /\ ShouldAttemptReset(lft, t) THEN "HALF_OPEN" ELSE st

EntryTag(st) ==
    IF st = "OPEN" THEN "PROBE" ELSE st

\* call(): the state and the counter after the wrapped function returned.
StateOnSuccess(st) == IF st = "HALF_OPEN" THEN "CLOSED" ELSE st

CountOnSuccessKept(st, n) == n

CountOnSuccess(st, n) == IF st = "HALF_OPEN" THEN 0 ELSE n

CountOnFailureReset(n) == IF n >= failure_threshold THEN 1 ELSE n + 1

\* _record_failure(): the counter and the state after a failure.
CountOnFailure(n) == n + 1

StateOnFailureLate(st, n) ==
    IF n >= failure_threshold THEN "OPEN" ELSE st

StateOnFailure(st, n) ==
    IF CountOnFailure(n) >= failure_threshold THEN "OPEN" ELSE st

\* call(func) up to `await func()`, or to its raise when rejected.
CallEnter ==
    /\ InflightTotal < MaxInflight
    /\ IF Rejects(cb_state, last_failure_time, now)
       THEN /\ cb_event' = [kind |-> "rejected", tag |-> "none"]
            /\ UNCHANGED <<cb_state, inflight>>
       ELSE /\ cb_state' = StateOnEntry(cb_state, last_failure_time, now)
            /\ inflight' = [inflight EXCEPT ![EntryTag(cb_state)] = @ + 1]
            /\ cb_event' = [kind |-> "invoked", tag |-> EntryTag(cb_state)]
    /\ UNCHANGED <<failure_count, last_failure_time, streak, now>>

\* The wrapped function of a call in flight returns.
CallReturns(tag) ==
    /\ inflight[tag] > 0
    /\ inflight' = [inflight EXCEPT ![tag] = @ - 1]
    /\ cb_state' = StateOnSuccess(cb_state)
    /\ failure_count' = CountOnSuccess(cb_state, failure_count)
    /\ cb_event' = [kind |-> "returned", tag |-> tag]
    /\ streak' = 0
    /\ UNCHANGED <<last_failure_time, now>>

\* The wrapped function of a call in flight raises: _record_failure().
CallRaises(tag) ==
    /\ inflight[tag] > 0
    /\ failure_count < MaxFailureCount
    /\ inflight' = [inflight EXCEPT ![tag] = @ - 1]
    /\ failure_count' = CountOnFailure(failure_count)
    /\ last_failure_time' = now
    /\ cb_state' = StateOnFailure(cb_state, failure_count)
    /\ cb_event' = [kind |-> "raised", tag |-> tag]
    /\ streak' = IF streak < failure_threshold THEN streak + 1 ELSE streak
    /\ UNCHANGED now

\* Time passes between two steps of the breaker's callers.
CbTick ==
    /\ Tick
    /\ cb_event' = NoEvent
    /\ UNCHANGED <<cb_state, failure_count, last_failure_time, inflight, streak>>

CbInit ==
    /\ cb_state = "CLOSED"
    /\ failure_count = 0
    /\ last_failure_time = None
    /\ inflight = [tag \in Tags |-> 0]
    /\ cb_event = NoEvent
    /\ streak = 0

(***************************************************************************)
(* can_send_notification and the alert loop _check_volume_alerts of        *)
(* websocket_service.py.  One step of the loop body runs from the verdict  *)
(* of _get_volume_analysis to the next await:                              *)
(*   pc = "idle"      between two subscriptions of the loop                *)
(*   pc = "sending"   suspended in websocket.send_text of the volume_alert *)
(*   pc = "telegram"  suspended in send_volume_alert_telegram              *)
(* notification_interval is the subscription's interval, in ticks.         *)
(***************************************************************************)
notification_interval == 2

\* notification_history after `if user_id not in self.notification_history`.
HistoryWithUser(nh, u) ==
    IF u \in DOMAIN nh THEN nh ELSE MapPut(nh, u, EmptyMap)

\* self.notification_history[user_id].get(symbol, 0)
LastNotification(nh, u, S) ==
    IF S \in DOMAIN HistoryWithUser(nh, u)[u]
    THEN HistoryWithUser(nh, u)[u][S] ELSE 0

CanSendStrict(nh, u, S, t, interval) ==
    t - LastNotification(nh, u, S) > interval

CanSendAlways(nh, u, S, t, interval) ==
    t - LastNotification(nh, u, S) >= 0

\* can_send_notification(user_id, symbol, interval_seconds): the result.
CanSend(nh, u, S, t, interval) == t - LastNotification(nh, u, S) >= interval

\* can_send_notification: notification_history after the call.
HistoryAfterCanSend(nh, u, S, t, interval) ==
    IF CanSend(nh, u, S, t, interval)
    THEN [HistoryWithUser(nh, u) EXCEPT ![u] = MapPut(@, S, t)]
    ELSE HistoryWithUser(nh, u)

\* db.get_volume_alert_subscriptions(): the (user, symbol) rows that have the
\* volume alert enabled.
AlertSubscriptions == {<<u, "BTC">> : u \in Users} \cup {<<1, "ETH">>}

IdleAlert == [pc |-> "idle", user |-> NoUser, target |-> NoSocket]

\* One subscription of the loop whose verdict is anomalous: the throttle
\* gate and, when it passes, the dispatch up to its first await.
AlertCheck(u, S) ==
    /\ al.pc = "idle"
    /\ notification_history' =
           HistoryAfterCanSend(notification_history, u, S, now,
                               notification_interval)
    /\ IF CanSend(notification_history, u, S, now, notification_interval)
       THEN /\ sent_at' = [sent_at EXCEPT ![<<u, S>>] = now]
            /\ al' = IF u \in DOMAIN active_connections
                     THEN [pc |-> "sending", user |-> u,
                           target |-> active_connections[u].websocket]
                     ELSE [pc |-> "telegram", user |-> u, target |-> NoSocket]
       ELSE UNCHANGED <<sent_at, al>>
    /\ UNCHANGED <<active_connections, symbol_subscribers, ws_open, handler,
                   msgs, bc, now>>

AfterPushRaising(a, ok) ==
    IF ok THEN [a EXCEPT !.pc = "telegram", !.target = NoSocket] ELSE IdleAlert

\* The alert task after `await manager.send_personal_message(...)`, which
\* returns whether the write succeeded or not: the Telegram push follows.
AfterPush(a, ok) == [a EXCEPT !.pc = "telegram", !.target = NoSocket]

\* The pending send of the volume_alert completes; on failure
\* send_personal_message calls disconnect(user_id).  The Telegram push follows.
AlertSendDone ==
    /\ al.pc = "sending"
    /\ IF ws_open[al.target]
       THEN UNCHANGED <<active_connections, symbol_subscribers,
                        notification_history, bc>>
       ELSE /\ ApplyDisconnect(al.user)
            /\ bc' = NoteIndexChange(bc, symbol_subscribers, symbol_subscribers')
    /\ al' = AfterPush(al, ws_open[al.target])
    /\ UNCHANGED <<ws_open, handler, msgs, sent_at, now>>

\* send_volume_alert_telegram returns or raises (the exception is logged).
AlertTelegramDone ==
    /\ al.pc = "telegram"
    /\ al' = IdleAlert
    /\ UNCHANGED <<regVars, sent_at, now>>

AlInit ==
    /\ al = IdleAlert
    /\ sent_at = [p \in AlertSubscriptions |-> None]

(***************************************************************************)
(* can_send_notification called on its own, by any number of tasks.  The   *)
(* method has no await: a call is one step whoever makes it.  The interval *)
(* of a call is one of Intervals; subscriptions carry 30..3600 seconds     *)
(* (message_routes.py), far below time.time(), which Epoch stands for.     *)
(* cn_call records the latest call with `since`, the time of the latest    *)
(* call on the pair that returned True (None when there was none).         *)
(***************************************************************************)
Intervals == 1..notification_interval

NoCall ==
    [user |-> NoUser, symbol |-> "", interval |-> 0, result |-> FALSE,
     since |-> None]

CanNotifyCall(u, S, interval) ==
    /\ notification_history' =
           HistoryAfterCanSend(notification_history, u, S, now, interval)
    /\ LET result == CanSend(notification_history, u, S, now, interval) IN
          /\ cn_call' = [user |-> u, symbol |-> S, interval |-> interval,
                         result |-> result, since |-> sent_at[<<u, S>>]]
          /\ sent_at' = IF result THEN [sent_at EXCEPT ![<<u, S>>] = now]
                        ELSE sent_at
          /\ granted_now' = IF result
                            THEN [granted_now EXCEPT ![<<u, S>>] = @ + 1]
                            ELSE granted_now
    /\ UNCHANGED <<active_connections, symbol_subscribers, ws_open, handler,
                   msgs, bc, al, now>>

\* Time passes between two calls.
CnTick ==
    /\ Tick
    /\ granted_now' = [p \in AlertSubscriptions |-> 0]
    /\ cn_call' = NoCall
    /\ UNCHANGED <<regVars, alVars>>

CnInit ==
    /\ cn_call = NoCall
    /\ granted_now = [p \in AlertSubscriptions |-> 0]

(***************************************************************************)
(* _get_volume_analysis and _analyze_volume_anomaly of                     *)
(* websocket_service.py.  A window is the sequence of the samples'         *)
(* volumes, oldest first.  The code computes in floating point; the model  *)
(* computes the same comparisons exactly over integer volumes, keeping     *)
(* the sum in place of the mean and the sum of the squared deviations      *)
(* scaled by n^2 in place of the variance:                                 *)
(*   avg_volume = vol_sum / n                                              *)
(*   variance   = sq_dev / n^3,  std_dev = variance ** 0.5                 *)
(* A threshold is the fraction num / den with den > 0.                     *)
(***************************************************************************)
min_samples == 20
fetch_limit == 25

Volumes == {0, 100, 190, 500}
OlderVolumes == {0, 500}
Thresholds ==
    {[num |-> -1, den |-> 1], [num |-> 0, den |-> 1], [num |-> 1, den |-> 1],
     [num |-> 11, den |-> 10], [num |-> 2, den |-> 1]}
Lengths == {0, min_samples - 1, min_samples, min_samples + 1, fetch_limit}

\* The windows of the model: the latest sample c, before it k samples of
\* volume y, before them samples of volume x back to the 20th from the end,
\* and samples of volume p before that.
WindowOf(n, p, x, k, y, c) ==
    [i \in 1..n |-> IF i = n THEN c
                    ELSE IF i >= n - k THEN y
                    ELSE IF i > n - min_samples THEN x
                    ELSE p]

RECURSIVE SumSeq(_)
SumSeq(q) == IF q = <<>> THEN 0 ELSE Head(q) + SumSeq(Tail(q))

RECURSIVE SumSqDev(_, _, _)
SumSqDev(q, n, total) ==
    IF q = <<>> THEN 0
    ELSE (n * Head(q) - total) * (n * Head(q) - total)
            + SumSqDev(Tail(q), n, total)

\* ohlcv_data[-1]
Latest(w) == w[Len(w)]

OldestNineteen(w) == SubSeq(w, 1, min_samples - 1)

\* ohlcv_data[-20:-1]
Recent19(w) ==
    SubSeq(w, (IF Len(w) > min_samples THEN Len(w) - min_samples ELSE 0) + 1,
           Len(w) - 1)

\* multiplier >= threshold, multiplier = current_volume / avg_volume if
\* avg_volume > 0 else 0
MultiplierReaches(cur, n, total, th) ==
    IF total > 0 THEN cur * n * th.den >= th.num * total ELSE 0 >= th.num

ExceedsOneStdDev(cur, n, total, sq) ==
    /\ n * cur - total > 0
    /\ n * (n * cur - total) * (n * cur - total) > sq

ReachesTwoStdDev(cur, n, total, sq) ==
    /\ n * cur - total >= 0
    /\ n * (n * cur - total) * (n * cur - total) >= 4 * sq

\* current_volume > avg_volume + 2 * std_dev
ExceedsTwoStdDev(cur, n, total, sq) ==
    /\ n * cur - total > 0
    /\ n * (n * cur - total) * (n * cur - total) > 4 * sq

NoVerdict ==
    [absent |-> TRUE, is_anomaly |-> FALSE, current_volume |-> 0,
     samples |-> 0, vol_sum |-> 0, sq_dev |-> 0]

\* _analyze_volume_anomaly(ohlcv_data, threshold)
AnalyzeVolumeAnomaly(w, th) ==
    IF Len(w) < min_samples THEN NoVerdict
    ELSE LET volumes == Recent19(w)
             n == Len(volumes)
             total == SumSeq(volumes)
             sq == SumSqDev(volumes, n, total)
             cur == Latest(w)
         IN [absent |-> FALSE,
             is_anomaly |-> MultiplierReaches(cur, n, total, th)
                               /\ ExceedsTwoStdDev(cur, n, total, sq),
             current_volume |-> cur,
             samples |-> n,
             vol_sum |-> total,
             sq_dev |-> sq]

IdleAnalysis == [pc |-> "idle", window |-> <<>>, threshold |-> [num |-> 0, den |-> 1]]

\* _get_volume_analysis up to the return of _get_historical_ohlcv_data.
AnalysisFetch ==
    /\ an.pc = "idle"
    /\ \E n \in Lengths, p \in OlderVolumes, x \in Volumes,
          k \in 0..(min_samples - 1), y \in Volumes, c \in Volumes,
          th \in Thresholds :
          an' = [pc |-> "fetched", window |-> WindowOf(n, p, x, k, y, c),
                 threshold |-> th]
    /\ UNCHANGED verdict

\* _get_volume_analysis from there to its return.
AnalysisReturn ==
    /\ an.pc = "fetched"
    /\ verdict' = IF Len(an.window) = 0 \/ Len(an.window) < min_samples
                  THEN NoVerdict
                  ELSE AnalyzeVolumeAnomaly(an.window, an.threshold)
    /\ an' = [an EXCEPT !.pc = "done"]

AnInit ==
    /\ an = IdleAnalysis
    /\ verdict = NoVerdict

(***************************************************************************)
(* RetryHandler.retry_with_backoff(func, max_retries, base_delay,          *)
(* max_delay, backoff_factor) of error_handler.py, with func a coroutine   *)
(* function that awaits exchange_circuit_breaker.call(upstream).           *)
(*   pc = "idle"      not called yet                                       *)
(*   pc = "calling"   suspended in `await func()`: the breaker admitted    *)
(*                    the call and upstream is running                     *)
(*   pc = "sleeping"  suspended in `await asyncio.sleep(delay)`            *)
(*   pc = "returned"  the call returned the result of attempt `attempt`    *)
(*   pc = "raised"    the call raised `last_exception`                     *)
(* An exception is named by the attempt that raised it and by its kind:    *)
(* "upstream" when upstream raised it, "503" for the breaker's             *)
(* HTTPException.  invocations counts the calls of func, slept lists the   *)
(* delays passed to asyncio.sleep, in ticks.                               *)
(***************************************************************************)
NoException == [attempt |-> -1, kind |-> "none"]

IdleRetry ==
    [pc |-> "idle", max_retries |-> 0, base_delay |-> 0, max_delay |-> 0,
     backoff_factor |-> 0, attempt |-> 0, invocations |-> 0, slept |-> <<>>,
     wake_at |-> 0, last_exception |-> NoException]

RECURSIVE Pow(_, _)
Pow(b, e) == IF e = 0 THEN 1 ELSE b * Pow(b, e - 1)

MinOf(a, b) == IF a <= b THEN a ELSE b

BackoffDelayUncapped(base_delay, backoff_factor, attempt, max_delay) ==
    base_delay * Pow(backoff_factor, attempt)

\* delay = min(base_delay * (backoff_factor ** attempt), max_delay)
BackoffDelay(base_delay, backoff_factor, attempt, max_delay) ==
    MinOf(base_delay * Pow(backoff_factor, attempt), max_delay)

IsFinalAttemptLate(attempt, max_retries) == attempt = max_retries + 1

\* if attempt == max_retries: break
IsFinalAttempt(attempt, max_retries) == attempt = max_retries

\* The except clause of the loop body for the exception of kind `kind`
\* raised by attempt r.attempt, up to the sleep or to the final raise.
AfterFailure(r, kind, t) ==
    LET e == [attempt |-> r.attempt, kind |-> kind] IN
    IF IsFinalAttempt(r.attempt, r.max_retries)
    THEN [r EXCEPT !.pc = "raised", !.last_exception = e]
    ELSE LET delay == BackoffDelay(r.base_delay, r.backoff_factor, r.attempt,
                                   r.max_delay)
         IN [r EXCEPT !.pc = "sleeping", !.last_exception = e,
                      !.slept = Append(@, delay), !.wake_at = t + delay]

\* `await func()`: the breaker rejects the call, or admits it and the task
\* is suspended in upstream.
Invoke(r) ==
    /\ CallEnter
    /\ rt' = IF Rejects(cb_state, last_failure_time, now)
             THEN AfterFailure([r EXCEPT !.invocations = @ + 1], "503", now)
             ELSE [r EXCEPT !.pc = "calling", !.invocations = @ + 1]

\* retry_with_backoff is called: the first attempt.
RetryStart ==
    /\ rt.pc = "idle"
    /\ \E m \in 0..MaxRetries, b \in 1..MaxBaseDelay, f \in 1..MaxFactor,
          d \in 1..MaxDelayCap :
          Invoke([IdleRetry EXCEPT !.max_retries = m, !.base_delay = b,
                                   !.backoff_factor = f, !.max_delay = d])

\* asyncio.sleep(delay) is over: the next attempt.
RetryResume ==
    /\ rt.pc = "sleeping"
    /\ now >= rt.wake_at
    /\ Invoke([rt EXCEPT !.attempt = @ + 1])

\* upstream returns: the breaker's success path, then `return await func()`.
RetryFuncReturns ==
    /\ rt.pc = "calling"
    /\ \E tag \in Tags : CallReturns(tag)
    /\ rt' = [rt EXCEPT !.pc = "returned"]

\* upstream raises: _record_failure(), then the except clause of the loop.
RetryFuncRaises ==
    /\ rt.pc = "calling"
    /\ \E tag \in Tags : CallRaises(tag)
    /\ rt' = AfterFailure(rt, "upstream", now)

\* Time passes while the task is suspended; a sleep lasts at least its delay.
RetryTick ==
    /\ \/ rt.pc = "calling" /\ now < Epoch + MaxTime
       \/ rt.pc = "sleeping" /\ (now < rt.wake_at \/ now < Epoch + MaxTime)
    /\ now' = now + 1
    /\ cb_event' = NoEvent
    /\ UNCHANGED <<cb_state, failure_count, last_failure_time, inflight,
                   streak, rt>>

RtInit == rt = IdleRetry

(***************************************************************************)
(* CacheManager.get_cache_key(prefix, *args, **kwargs) of cache_service.py. *)
(* A string is the sequence of its characters' code points.  An argument   *)
(* is an int or a str; kwargs is the list of (name, value) items in the    *)
(* order the caller supplied them, the order a Python dict keeps.          *)
(***************************************************************************)
key_length_limit == 200
hexdigest_len == 32
Colon == 58

IntArg(n) == [t |-> "int", n |-> n, s |-> <<>>]

StrArg(s) == [t |-> "str", n |-> 0, s |-> s]

\* str(n) for an int n >= 0: its decimal digits.
RECURSIVE Digits(_)
Digits(n) == IF n < 10 THEN <<48 + n>> ELSE Digits(n \div 10) \o <<48 + (n % 10)>>

\* str(arg) and the {v} of an f-string.
Str(v) == IF v.t = "int" THEN Digits(v.n) ELSE v.s

\* a < b on Python strings: by code point, a proper prefix first.
RECURSIVE LexLess(_, _)
LexLess(a, b) ==
    IF a = <<>> THEN b # <<>>
    ELSE IF b = <<>> THEN FALSE
    ELSE IF Head(a) = Head(b) THEN LexLess(Tail(a), Tail(b))
    ELSE Head(a) < Head(b)

RECURSIVE InsertItem(_, _)
InsertItem(q, item) ==
    IF q = <<>> THEN <<item>>
    ELSE IF LexLess(item.name, Head(q).name) THEN <<item>> \o q
    ELSE <<Head(q)>> \o InsertItem(Tail(q), item)

RECURSIVE SortItems(_)
SortItems(q) == IF q = <<>> THEN <<>> ELSE InsertItem(SortItems(Tail(q)), Head(q))

ItemsAsSupplied(kwargs) == kwargs

\* sorted(kwargs.items()): the names of one call are distinct, so the
\* tuples are ordered by name and the values are never compared.
SortedItems(kwargs) == SortItems(kwargs)

\* ":".join(key_parts), key_parts not empty
RECURSIVE Join(_)
Join(parts) ==
    IF Len(parts) = 1 THEN parts[1]
    ELSE parts[1] \o <<Colon>> \o Join(Tail(parts))

HexDigit(d) == IF d < 10 THEN 48 + d ELSE 87 + d

\* The sum of i * s[i] for i in lo..hi, by halves.
RECURSIVE WeightedSum(_, _, _)
WeightedSum(s, lo, hi) ==
    IF lo > hi THEN 0
    ELSE IF lo = hi THEN lo * s[lo]
    ELSE WeightedSum(s, lo, (lo + hi) \div 2)
             + WeightedSum(s, (lo + hi) \div 2 + 1, hi)

Checksum(s) == WeightedSum(s, 1, Len(s)) % 65536

\* hashlib.md5(key_string.encode()).hexdigest(): 32 hexadecimal digits that
\* depend on the bytes of key_string alone.  A 16-bit checksum stands for
\* the 128-bit digest; its digits fill the last four places.
Md5Hex(s) ==
    [i \in 1..hexdigest_len |->
        IF i <= hexdigest_len - 4 THEN 48
        ELSE HexDigit((Checksum(s) \div Pow(16, hexdigest_len - i)) % 16)]

KeyParts(prefix, args, kwargs) ==
    <<prefix>> \o [i \in 1..Len(args) |-> Str(args[i])]
        \o [i \in 1..Len(kwargs) |->
               SortedItems(kwargs)[i].name \o <<Colon>>
                   \o Str(SortedItems(kwargs)[i].value)]

KeyString(prefix, args, kwargs) == Join(KeyParts(prefix, args, kwargs))

GetCacheKey(prefix, args, kwargs) ==
    IF Len(KeyString(prefix, args, kwargs)) > key_length_limit
    THEN prefix \o <<Colon>> \o Md5Hex(KeyString(prefix, args, kwargs))
    ELSE KeyString(prefix, args, kwargs)

\* The arguments of the calls: prefixes "p" and "pq", names "a", "ab" and
\* "b", short values and strings of x around the length limit.
Filler(n) == [i \in 1..n |-> 120]

Prefixes == {<<112>>, <<112, 113>>}

Names == {<<97>>, <<97, 98>>, <<98>>}

ArgValues ==
    {IntArg(10), StrArg(Filler(key_length_limit - 3)),
     StrArg(Filler(key_length_limit - 2))}

KwValues == {IntArg(1), StrArg(<<98>>)}

SeqsUpTo(S, n) == UNION {[1..m -> S] : m \in 0..n}

\* The lists of items a call can supply: no name twice.
KwargLists ==
    {q \in SeqsUpTo([name : Names, value : KwValues], MaxKwargs) :
        \A i, j \in 1..Len(q) : i # j => q[i].name # q[j].name}

\* The same items in another order of supply.
Reorderings(q) ==
    {r \in KwargLists :
        Len(r) = Len(q) /\ {r[i] : i \in 1..Len(r)} = {q[i] : i \in 1..Len(q)}}

NoKeyCall ==
    [pc |-> "idle", prefix |-> <<>>, args |-> <<>>, kwargs |-> <<>>,
     key |-> <<>>, kwargs2 |-> <<>>, key2 |-> <<>>]

\* A first call of get_cache_key.
KeyCall ==
    /\ ck.pc = "idle"
    /\ \E prefix \in Prefixes, args \in SeqsUpTo(ArgValues, MaxArgs),
          kwargs \in KwargLists :
          ck' = [NoKeyCall EXCEPT
                   !.pc = "called", !.prefix = prefix, !.args = args,
                   !.kwargs = kwargs,
                   !.key = GetCacheKey(prefix, args, kwargs)]

\* A later call with the same prefix, positional arguments and items, the
\* items supplied in any order.
KeyCallAgain ==
    /\ ck.pc = "called"
    /\ \E kwargs2 \in Reorderings(ck.kwargs) :
          ck' = [ck EXCEPT
                   !.pc = "again", !.kwargs2 = kwargs2,
                   !.key2 = GetCacheKey(ck.prefix, ck.args, kwargs2)]

CkInit == ck = NoKeyCall

(***************************************************************************)
(* RealTimeDataService of websocket_service.py: start(), stop() and the    *)
(* two polling loops.  main.py calls start() when the application starts   *)
(* and stop() when it shuts down; the model lets both be called any number *)
(* of times in that order.  A loop task:                                   *)
(*   pc = "none"       not created                                         *)
(*   pc = "check"      at the test of `while self.is_running`              *)
(*   pc = "symbols"    price loop, between two symbols of the for loop     *)
(*   pc = "broadcast"  price loop, inside broadcast_to_subscribers (bc)    *)
(*   pc = "subs"       alert loop, between two subscriptions               *)
(*   pc = "dispatch"   alert loop, inside the dispatch of an alert (al)    *)
(*   pc = "sleep"      suspended in the sleep that ends an iteration       *)
(*   pc = "backoff"    suspended in the sleep of the outer handler         *)
(*   pc = "done"       the coroutine returned                              *)
(* outcome is what the latest step of the for loop body met, push what     *)
(* became of the push of the alert being dispatched, failed whether the    *)
(* iteration has met a failure; tick numbers the iterations of the price   *)
(* loop that have symbols.  _get_ticker_data and _get_volume_analysis      *)
(* never suspend: fetch_ticker is a blocking call and the OHLCV window is  *)
(* computed in place.                                                      *)
(***************************************************************************)
ServiceSockets == 1..NumClients

NoTask ==
    [pc |-> "none", todo |-> <<>>, tick |-> 0, outcome |-> "none",
     push |-> "none", failed |-> FALSE]

\* The lists a Python dict or a result set can give for a set of items.
Orderings(S) ==
    {q \in [1..Cardinality(S) -> S] : \A i, j \in DOMAIN q : i # j => q[i] # q[j]}

StartsAnew(flag) == FALSE

\* `if self.is_running: return`
AlreadyRunning(flag) == flag

\* start()
Start ==
    /\ start_calls < MaxStartCalls
    /\ is_running \/ spawned.price = 0
    /\ start_calls' = start_calls + 1
    /\ IF AlreadyRunning(is_running)
       THEN UNCHANGED <<is_running, spawned, pl, vl>>
       ELSE /\ is_running' = TRUE
            /\ spawned' = [price |-> spawned.price + 1,
                           alert |-> spawned.alert + 1]
            /\ pl' = [NoTask EXCEPT !.pc = "check"]
            /\ vl' = [NoTask EXCEPT !.pc = "check"]
    /\ UNCHANGED received

\* stop()
Stop ==
    /\ is_running' = FALSE
    /\ UNCHANGED <<start_calls, spawned, pl, vl, received>>

\* The end of the body of a for loop: the next item, or the sleep.
Advance(task, between) ==
    [task EXCEPT !.todo = Tail(@),
                 !.pc = IF Tail(task.todo) = <<>> THEN "sleep" ELSE between]

TickBefore(n) == n - 1

\* The number of the next iteration of the price loop.
NextTick(n) == n + 1

RunsForever(flag) == TRUE

\* `while self.is_running`
KeepsRunning(flag) == flag

\* while self.is_running: symbols = list(manager.symbol_subscribers.keys())
PriceCheck ==
    /\ pl.pc = "check"
    /\ IF KeepsRunning(is_running)
       THEN \E symbols \in Orderings(DOMAIN symbol_subscribers) :
               IF symbols = <<>>
               THEN pl' = [pl EXCEPT !.todo = symbols, !.outcome = "none",
                                     !.failed = FALSE, !.pc = "sleep"]
               ELSE /\ pl.tick < MaxTicks
                    /\ pl' = [pl EXCEPT !.tick = NextTick(@), !.todo = symbols,
                                        !.outcome = "none", !.failed = FALSE,
                                        !.pc = "symbols"]
       ELSE pl' = [pl EXCEPT !.pc = "done"]
    /\ UNCHANGED <<is_running, start_calls, spawned, vl, received>>

\* _get_ticker_data returns a ticker: broadcast_to_subscribers up to its
\* for loop, or through when the symbol has left the index meanwhile.
PriceFetchReturns ==
    /\ pl.pc = "symbols"
    /\ BroadcastStart(Head(pl.todo))
    /\ pl' = IF Head(pl.todo) \in DOMAIN symbol_subscribers
             THEN [pl EXCEPT !.pc = "broadcast", !.outcome = "ticker"]
             ELSE Advance([pl EXCEPT !.outcome = "ticker"], "symbols")
    /\ UNCHANGED <<is_running, start_calls, spawned, vl, received>>

\* fetch_ticker raises, or there is no exchange: _get_ticker_data logs and
\* returns None, and the loop goes on with the next symbol.
PriceFetchFails ==
    /\ pl.pc = "symbols"
    /\ pl' = Advance([pl EXCEPT !.outcome = "no ticker", !.failed = TRUE],
                     "symbols")
    /\ UNCHANGED <<regVars, is_running, start_calls, spawned, vl, received>>

PriceBroadcastNext ==
    /\ pl.pc = "broadcast"
    /\ \E u \in Users : BroadcastNext(u)
    /\ UNCHANGED svVars

\* A send of the broadcast completes: the socket took the payload, or the
\* write raised and send_personal_message disconnected the user.
PriceBroadcastSendDone ==
    /\ pl.pc = "broadcast"
    /\ BroadcastSendDone
    /\ received' = IF ws_open[bc.target]
                   THEN [received EXCEPT ![bc.cur][bc.symbol] =
                                             Append(@, pl.tick)]
                   ELSE received
    /\ UNCHANGED <<is_running, start_calls, spawned, pl, vl>>

PriceBroadcastFinish ==
    /\ pl.pc = "broadcast"
    /\ BroadcastFinish
    /\ pl' = Advance(pl, "symbols")
    /\ UNCHANGED <<is_running, start_calls, spawned, vl, received>>

\* The for loop of the broadcast raises RuntimeError: the handler around
\* the symbol logs it and the loop goes on with the next symbol.
PriceBroadcastRaise ==
    /\ pl.pc = "broadcast"
    /\ BroadcastRaise
    /\ pl' = Advance([pl EXCEPT !.outcome = "raised", !.failed = TRUE],
                     "symbols")
    /\ UNCHANGED <<is_running, start_calls, spawned, vl, received>>

\* asyncio.sleep(self.update_interval) returns.
PriceWake ==
    /\ pl.pc = "sleep"
    /\ pl' = [pl EXCEPT !.pc = "check"]
    /\ UNCHANGED <<regVars, is_running, start_calls, spawned, vl, received>>

\* The rows with the volume alert enabled, in the order of the result set.
AlertRows == CHOOSE q \in Orderings(AlertSubscriptions) : TRUE

\* while self.is_running: subscriptions = db.get_volume_alert_subscriptions()
\* returns the rows.
VolCheck(subscriptions) ==
    /\ vl.pc = "check"
    /\ IF KeepsRunning(is_running)
       THEN vl' = [vl EXCEPT !.todo = subscriptions, !.push = "none",
                            !.outcome = "none", !.failed = FALSE,
                            !.pc = IF subscriptions = <<>> THEN "sleep"
                                   ELSE "subs"]
       ELSE vl' = [vl EXCEPT !.pc = "done"]
    /\ UNCHANGED <<regVars, alVars, is_running, start_calls, spawned, pl,
                   received>>

\* db.get_volume_alert_subscriptions() raises in get_connection(), outside
\* its own handler: the outer handler of the loop logs and sleeps 30 s.
VolStoreFails ==
    /\ vl.pc = "check"
    /\ is_running
    /\ vl' = [vl EXCEPT !.todo = <<>>, !.push = "none",
                        !.outcome = "store failed", !.failed = TRUE,
                        !.pc = "backoff"]
    /\ UNCHANGED <<regVars, alVars, is_running, start_calls, spawned, pl,
                   received>>

\* The verdict of _get_volume_analysis is None or not an anomaly.
VolNoAnomaly ==
    /\ vl.pc = "subs"
    /\ \E v \in {"absent", "normal"} :
          vl' = Advance([vl EXCEPT !.outcome = v, !.push = "none"], "subs")
    /\ UNCHANGED <<regVars, alVars, is_running, start_calls, spawned, pl,
                   received>>

\* The verdict is an anomaly: the throttle gate and, when it passes, the
\* dispatch up to its first await.
VolAnomaly ==
    /\ vl.pc = "subs"
    /\ AlertCheck(Head(vl.todo)[1], Head(vl.todo)[2])
    /\ vl' = IF CanSend(notification_history, Head(vl.todo)[1],
                        Head(vl.todo)[2], now, notification_interval)
             THEN [vl EXCEPT !.pc = "dispatch", !.outcome = "granted",
                             !.push = IF Head(vl.todo)[1] \in DOMAIN active_connections
                                      THEN "sending" ELSE "no session"]
             ELSE Advance([vl EXCEPT !.outcome = "throttled", !.push = "none"],
                          "subs")
    /\ UNCHANGED <<is_running, start_calls, spawned, pl, received>>

\* The send of the volume_alert completes, well or not.
VolSendDone ==
    /\ vl.pc = "dispatch"
    /\ AlertSendDone
    /\ vl' = [vl EXCEPT !.outcome = "push done",
                        !.push = IF ws_open[al.target] THEN "pushed"
                                 ELSE "failed",
                        !.failed = @ \/ ~ws_open[al.target]]
    /\ UNCHANGED <<is_running, start_calls, spawned, pl, received>>

\* send_volume_alert_telegram returns: the message was sent, the user has
\* no Telegram chat, or the send failed and was logged.
VolTelegramDone ==
    /\ vl.pc = "dispatch"
    /\ AlertTelegramDone
    /\ \E t \in {"telegram sent", "no telegram", "telegram failed"} :
          vl' = Advance([vl EXCEPT !.outcome = t,
                                   !.failed = @ \/ t = "telegram failed"],
                        "subs")
    /\ UNCHANGED <<is_running, start_calls, spawned, pl, received>>

\* asyncio.sleep(10) or asyncio.sleep(30) returns.
VolWake ==
    /\ vl.pc \in {"sleep", "backoff"}
    /\ vl' = [vl EXCEPT !.pc = "check"]
    /\ UNCHANGED <<regVars, alVars, is_running, start_calls, spawned, pl,
                   received>>

SvInit ==
    /\ is_running = FALSE
    /\ start_calls = 0
    /\ spawned = [price |-> 0, alert |-> 0]
    /\ pl = NoTask
    /\ vl = NoTask
    /\ received = [u \in Users |-> [S \in Symbols |-> <<>>]]

(***************************************************************************)
(* start() and stop() called in any order, as the class allows.  Each      *)
(* start() that finds the flag cleared creates one task per loop; loops     *)
(* holds, per kind of loop, the position of every task created so far:     *)
(*   "check"  at the test of `while self.is_running`                       *)
(*   "sleep"  suspended in the sleep that ends the iteration               *)
(*   "done"   the coroutine returned                                       *)
(* The body of an iteration is the subject of the two specifications       *)
(* above; here it is one step from the test to the sleep.                  *)
(***************************************************************************)
LoopKinds == {"price", "alert"}

\* start(), whatever was called before.
StartAnyTime ==
    /\ start_calls < MaxStartCalls
    /\ start_calls' = start_calls + 1
    /\ IF AlreadyRunning(is_running)
       THEN UNCHANGED <<is_running, spawned, loops>>
       ELSE /\ is_running' = TRUE
            /\ spawned' = [price |-> spawned.price + 1,
                           alert |-> spawned.alert + 1]
            /\ loops' = [k \in LoopKinds |-> Append(loops[k], "check")]
    /\ UNCHANGED <<pl, vl, received>>

\* stop(), whatever was called before.
StopAnyTime ==
    /\ Stop
    /\ UNCHANGED loops

\* `while self.is_running` in task i of a loop: one more iteration, up to
\* its sleep, or the end of the coroutine.
LoopCheck(k, i) ==
    /\ loops[k][i] = "check"
    /\ loops' = [loops EXCEPT ![k][i] =
                     IF KeepsRunning(is_running) THEN "sleep" ELSE "done"]
    /\ UNCHANGED svVars

\* The sleep of task i of a loop returns.
LoopWake(k, i) ==
    /\ loops[k][i] = "sleep"
    /\ loops' = [loops EXCEPT ![k][i] = "check"]
    /\ UNCHANGED svVars

RsInit == loops = [k \in LoopKinds |-> <<>>]

(***************************************************************************)
(* The registry with its handlers and one broadcasting task.               *)
(***************************************************************************)
RegInit ==
    /\ active_connections = EmptyMap
    /\ symbol_subscribers = EmptyMap
    /\ notification_history = EmptyMap
    /\ ws_open = [ws \in Sockets |-> TRUE]
    /\ handler = [ws \in Sockets |-> IdleHandler]
    /\ msgs = 0
    /\ bc = IdleBroadcast

Init ==
    /\ RegInit /\ AggInit /\ CbInit /\ AlInit /\ CnInit /\ AnInit /\ RtInit
    /\ McInit /\ CkInit /\ SvInit /\ RsInit
    /\ now = Epoch

RegNext ==
    \/ \E ws \in Sockets, u \in Users : Connect(ws, u) /\ UNCHANGED <<now, aggVars, cbVars, alVars, extVars>>
    \/ \E ws \in Sockets : HandlerSendDone(ws) /\ UNCHANGED <<now, aggVars, cbVars, alVars, extVars>>
    \/ \E ws \in Sockets, S \in Symbols : ReceiveSubscribe(ws, S) /\ UNCHANGED <<now, aggVars, cbVars, alVars, extVars>>
    \/ \E ws \in Sockets, S \in Symbols : ReceiveUnsubscribe(ws, S) /\ UNCHANGED <<now, aggVars, cbVars, alVars, extVars>>
    \/ \E ws \in Sockets : ReceivePing(ws) /\ UNCHANGED <<now, aggVars, cbVars, alVars, extVars>>
    \/ \E ws \in Sockets : ReceiveClosed(ws) /\ UNCHANGED <<now, aggVars, cbVars, alVars, extVars>>
    \/ \E ws \in Sockets : TransportBreak(ws) /\ UNCHANGED <<now, aggVars, cbVars, alVars, extVars>>
    \/ \E S \in Symbols : BroadcastStart(S) /\ UNCHANGED <<now, aggVars, cbVars, alVars, extVars>>
    \/ BroadcastRaise /\ UNCHANGED <<now, aggVars, cbVars, alVars, extVars>>
    \/ \E u \in Users : BroadcastNext(u) /\ UNCHANGED <<now, aggVars, cbVars, alVars, extVars>>
    \/ BroadcastFinish /\ UNCHANGED <<now, aggVars, cbVars, alVars, extVars>>
    \/ BroadcastSendDone /\ UNCHANGED <<now, aggVars, cbVars, alVars, extVars>>

SpecRegistry == Init /\ [][RegNext]_vars

AggNext ==
    \/ \E t \in Callers, k \in Keys : AggCall(t, k) /\ UNCHANGED <<regVars, cbVars, alVars, extVars>>
    \/ \E t \in Callers : FetchReturns(t) /\ UNCHANGED <<regVars, cbVars, alVars, extVars>>
    \/ \E t \in Callers : FetchRaises(t) /\ UNCHANGED <<regVars, cbVars, alVars, extVars>>
    \/ \E t \in Callers : WaiterResumes(t) /\ UNCHANGED <<regVars, cbVars, alVars, extVars>>
    \/ Tick /\ UNCHANGED <<regVars, aggVars, cbVars, alVars, extVars>>

SpecAggregator == Init /\ [][AggNext]_vars

\* The event loop runs every task that is ready: a woken waiter resumes.
SpecAggregatorLive ==
    /\ SpecAggregator
    /\ \A t \in Callers :
          WF_vars(WaiterResumes(t) /\ UNCHANGED <<regVars, cbVars, alVars, extVars>>)

CbNext ==
    \/ CallEnter /\ UNCHANGED <<regVars, aggVars, alVars, extVars>>
    \/ \E tag \in Tags : CallReturns(tag) /\ UNCHANGED <<regVars, aggVars, alVars, extVars>>
    \/ \E tag \in Tags : CallRaises(tag) /\ UNCHANGED <<regVars, aggVars, alVars, extVars>>
    \/ CbTick /\ UNCHANGED <<regVars, aggVars, alVars, extVars>>

SpecBreaker == Init /\ [][CbNext]_vars

\* The alert loop beside the endpoints of clients that connect, ping and
\* leave, as time passes.
ThrottleNext ==
    \/ \E ws \in Sockets, u \in Users :
          Connect(ws, u) /\ UNCHANGED <<now, aggVars, cbVars, alVars, extVars>>
    \/ \E ws \in Sockets :
          HandlerSendDone(ws) /\ UNCHANGED <<now, aggVars, cbVars, alVars, extVars>>
    \/ \E ws \in Sockets :
          ReceiveClosed(ws) /\ UNCHANGED <<now, aggVars, cbVars, alVars, extVars>>
    \/ \E ws \in Sockets :
          TransportBreak(ws) /\ UNCHANGED <<now, aggVars, cbVars, alVars, extVars>>
    \/ \E p \in AlertSubscriptions :
          AlertCheck(p[1], p[2]) /\ UNCHANGED <<aggVars, cbVars, extVars>>
    \/ AlertSendDone /\ UNCHANGED <<aggVars, cbVars, extVars>>
    \/ AlertTelegramDone /\ UNCHANGED <<aggVars, cbVars, extVars>>
    \/ Tick /\ UNCHANGED <<regVars, aggVars, cbVars, alVars, extVars>>

SpecThrottle == Init /\ [][ThrottleNext]_vars

\* Tasks calling can_send_notification as time passes.
CanNotifyNext ==
    \/ \E p \in AlertSubscriptions, i \in Intervals :
          CanNotifyCall(p[1], p[2], i) /\ UNCHANGED <<aggVars, cbVars, anVars, rtVars, mcVars, moreVars>>
    \/ CnTick /\ UNCHANGED <<aggVars, cbVars, anVars, rtVars, mcVars, moreVars>>

SpecCanNotify == Init /\ [][CanNotifyNext]_vars

\* One volume analysis of a window and a threshold.
AnalysisNext ==
    \/ AnalysisFetch
          /\ UNCHANGED <<regVars, now, aggVars, cbVars, alVars, cnVars, rtVars, mcVars, moreVars>>
    \/ AnalysisReturn
          /\ UNCHANGED <<regVars, now, aggVars, cbVars, alVars, cnVars, rtVars, mcVars, moreVars>>

SpecAnalysis == Init /\ [][AnalysisNext]_vars

\* One retry_with_backoff call around the breaker.
RetryNext ==
    \/ RetryStart /\ UNCHANGED <<regVars, aggVars, alVars, cnVars, anVars, mcVars, moreVars>>
    \/ RetryResume /\ UNCHANGED <<regVars, aggVars, alVars, cnVars, anVars, mcVars, moreVars>>
    \/ RetryFuncReturns /\ UNCHANGED <<regVars, aggVars, alVars, cnVars, anVars, mcVars, moreVars>>
    \/ RetryFuncRaises /\ UNCHANGED <<regVars, aggVars, alVars, cnVars, anVars, mcVars, moreVars>>
    \/ RetryTick /\ UNCHANGED <<regVars, aggVars, alVars, cnVars, anVars, mcVars, moreVars>>

SpecRetry == Init /\ [][RetryNext]_vars

\* The scheduler runs every ready task, upstream answers and sleeps end.
SpecRetryLive == SpecRetry /\ WF_vars(RetryNext)

\* get and set calls on one MemoryCache as time passes.
CacheNext ==
    \/ \E k \in Keys : CacheGetCall(k)
          /\ UNCHANGED <<regVars, cbVars, alVars, cnVars, anVars, rtVars, moreVars>>
    \/ \E k \in Keys, v \in Values, ttl \in 1..(Ttl + 1) : CacheSetCall(k, v, ttl)
          /\ UNCHANGED <<regVars, cbVars, alVars, cnVars, anVars, rtVars, moreVars>>
    \/ CacheTick
          /\ UNCHANGED <<regVars, cbVars, alVars, cnVars, anVars, rtVars, moreVars>>

SpecCache == Init /\ [][CacheNext]_vars

\* Calls of get_cache_key.
CacheKeyNext ==
    \/ KeyCall /\ UNCHANGED <<regVars, now, aggVars, cbVars, alVars, cnVars, anVars, rtVars, mcVars, svVars, rsVars>>
    \/ KeyCallAgain /\ UNCHANGED <<regVars, now, aggVars, cbVars, alVars, cnVars, anVars, rtVars, mcVars, svVars, rsVars>>

SpecCacheKey == Init /\ [][CacheKeyNext]_vars

\* The steps of the price loop and of the alert loop.
PriceSteps ==
    \/ PriceCheck /\ UNCHANGED <<regVars, now, aggVars, cbVars, alVars, cnVars, anVars, rtVars, mcVars, ckVars, rsVars>>
    \/ PriceWake /\ UNCHANGED <<now, aggVars, cbVars, alVars, cnVars, anVars, rtVars, mcVars, ckVars, rsVars>>

PriceBroadcastSteps ==
    \/ PriceFetchReturns /\ UNCHANGED <<now, aggVars, cbVars, alVars, cnVars, anVars, rtVars, mcVars, ckVars, rsVars>>
    \/ PriceFetchFails /\ UNCHANGED <<now, aggVars, cbVars, alVars, cnVars, anVars, rtVars, mcVars, ckVars, rsVars>>
    \/ PriceBroadcastNext /\ UNCHANGED <<now, aggVars, cbVars, alVars, cnVars, anVars, rtVars, mcVars, ckVars, rsVars>>
    \/ PriceBroadcastSendDone /\ UNCHANGED <<now, aggVars, cbVars, alVars, cnVars, anVars, rtVars, mcVars, ckVars, rsVars>>
    \/ PriceBroadcastFinish /\ UNCHANGED <<now, aggVars, cbVars, alVars, cnVars, anVars, rtVars, mcVars, ckVars, rsVars>>
    \/ PriceBroadcastRaise /\ UNCHANGED <<now, aggVars, cbVars, alVars, cnVars, anVars, rtVars, mcVars, ckVars, rsVars>>

VolSteps(subscriptions) ==
    \/ VolCheck(subscriptions) /\ UNCHANGED <<now, aggVars, cbVars, cnVars, anVars, rtVars, mcVars, ckVars, rsVars>>
    \/ VolStoreFails /\ UNCHANGED <<now, aggVars, cbVars, cnVars, anVars, rtVars, mcVars, ckVars, rsVars>>
    \/ VolWake /\ UNCHANGED <<now, aggVars, cbVars, cnVars, anVars, rtVars, mcVars, ckVars, rsVars>>

VolDispatchSteps ==
    \/ VolNoAnomaly /\ UNCHANGED <<now, aggVars, cbVars, cnVars, anVars, rtVars, mcVars, ckVars, rsVars>>
    \/ VolAnomaly /\ UNCHANGED <<aggVars, cbVars, cnVars, anVars, rtVars, mcVars, ckVars, rsVars>>
    \/ VolSendDone /\ UNCHANGED <<aggVars, cbVars, cnVars, anVars, rtVars, mcVars, ckVars, rsVars>>
    \/ VolTelegramDone /\ UNCHANGED <<aggVars, cbVars, cnVars, anVars, rtVars, mcVars, ckVars, rsVars>>

ServiceCalls ==
    \/ Start /\ UNCHANGED <<regVars, now, aggVars, cbVars, alVars, cnVars, anVars, rtVars, mcVars, ckVars, rsVars>>
    \/ Stop /\ UNCHANGED <<regVars, now, aggVars, cbVars, alVars, cnVars, anVars, rtVars, mcVars, ckVars, rsVars>>

\* The endpoints of the clients of the service.
SessionSteps ==
    \/ \E ws \in ServiceSockets, u \in Users :
          Connect(ws, u) /\ UNCHANGED <<now, aggVars, cbVars, alVars, extVars>>
    \/ \E ws \in ServiceSockets :
          HandlerSendDone(ws) /\ UNCHANGED <<now, aggVars, cbVars, alVars, extVars>>
    \/ \E ws \in ServiceSockets :
          ReceiveClosed(ws) /\ UNCHANGED <<now, aggVars, cbVars, alVars, extVars>>
    \/ \E ws \in ServiceSockets :
          TransportBreak(ws) /\ UNCHANGED <<now, aggVars, cbVars, alVars, extVars>>

SubscribeSteps ==
    \E ws \in ServiceSockets, S \in Symbols :
        ReceiveSubscribe(ws, S) /\ UNCHANGED <<now, aggVars, cbVars, alVars, extVars>>

\* The service with clients that subscribe to prices, and no subscription
\* with the volume alert enabled in the store.
PriceLoopNext ==
    \/ ServiceCalls
    \/ SessionSteps
    \/ SubscribeSteps
    \/ PriceSteps
    \/ PriceBroadcastSteps
    \/ VolSteps(<<>>)

SpecPriceLoop == Init /\ [][PriceLoopNext]_vars

\* The service with the volume alert enabled for AlertSubscriptions, and
\* clients that connect and leave without subscribing to prices.
AlertLoopNext ==
    \/ ServiceCalls
    \/ SessionSteps
    \/ PriceSteps
    \/ VolSteps(AlertRows)
    \/ VolDispatchSteps

SpecAlertLoop == Init /\ [][AlertLoopNext]_vars

\* The event loop runs every task that is ready, sleeps end, and the
\* transports and Telegram answer or fail.
SpecAlertLoopLive ==
    /\ SpecAlertLoop
    /\ WF_vars(PriceSteps)
    /\ WF_vars(VolSteps(AlertRows) \/ VolDispatchSteps)

\* The service started and stopped in any order.
RestartNext ==
    \/ StartAnyTime /\ UNCHANGED <<regVars, now, aggVars, cbVars, alVars, cnVars, anVars, rtVars, mcVars, ckVars>>
    \/ StopAnyTime /\ UNCHANGED <<regVars, now, aggVars, cbVars, alVars, cnVars, anVars, rtVars, mcVars, ckVars>>
    \/ \E k \in LoopKinds : \E i \in DOMAIN loops[k] :
          LoopCheck(k, i) /\ UNCHANGED <<regVars, now, aggVars, cbVars, alVars, cnVars, anVars, rtVars, mcVars, ckVars>>
    \/ \E k \in LoopKinds : \E i \in DOMAIN loops[k] :
          LoopWake(k, i) /\ UNCHANGED <<regVars, now, aggVars, cbVars, alVars, cnVars, anVars, rtVars, mcVars, ckVars>>

SpecRestart == Init /\ [][RestartNext]_vars

(***************************************************************************)
(* Properties of the connection registry.                                  *)
(***************************************************************************)
Indexed(u, S) == S \in DOMAIN symbol_subscribers /\ u \in symbol_subscribers[S]

Subscribed(u, S) ==
    u \in DOMAIN active_connections /\ S \in active_connections[u].subscriptions

\* C1: at every point where a task can observe the registry, user u is in
\* symbol_subscribers[S] if and only if u has a live session whose
\* subscription set holds S.
C1_IndexInvariant ==
    \A u \in Users, S \in Symbols : Indexed(u, S) <=> Subscribed(u, S)

\* A step in which the endpoint of socket ws calls disconnect(user_id)
\* (WebSocketDisconnect, or accept failing).
EndpointDisconnects(ws) ==
    /\ handler[ws].pc = "recv"
    /\ handler'[ws].pc = "closed"

\* C2: right after disconnect(u) returns for a user u with a live session, u
\* has no session, u is in no reverse-index set, and every symbol whose only
\* subscriber was u is no longer a key; disconnect(u) for a user without a
\* session changes none of the maps.
C2_DisconnectPost ==
    [][\A ws \in Sockets : EndpointDisconnects(ws) =>
          LET u == handler[ws].user IN
          IF u \in DOMAIN active_connections
          THEN /\ u \notin DOMAIN active_connections'
               /\ \A S \in DOMAIN symbol_subscribers' :
                      u \notin symbol_subscribers'[S]
               /\ \A S \in DOMAIN symbol_subscribers :
                      symbol_subscribers[S] = {u} =>
                          S \notin DOMAIN symbol_subscribers'
          ELSE UNCHANGED <<active_connections, symbol_subscribers,
                           notification_history>>]_vars

\* The users of a finished broadcast whose transport is healthy: they were
\* indexed when it began, their write did not fail, and their session is
\* still the live one on an open socket.
HealthyRecipients ==
    {u \in bc.snapshot \ bc.failed :
        /\ u \in DOMAIN active_connections
        /\ ws_open[active_connections[u].websocket]}

\* C3: a broadcast to two or more subscribers in which some transport write
\* throws does not raise, delivers the payload to every subscriber whose
\* transport is healthy, and leaves every subscriber whose write failed
\* without session and without reverse-index entry.
C3_BroadcastIsolation ==
    (bc.pc = "ended" /\ Cardinality(bc.snapshot) >= 2 /\ bc.failed # {}) =>
        /\ ~bc.raised
        /\ HealthyRecipients \subseteq bc.delivered
        /\ \A u \in bc.failed :
              /\ u \notin DOMAIN active_connections
              /\ \A S \in Symbols : ~Indexed(u, S)

(***************************************************************************)
(* Properties of the single-flight aggregator.                             *)
(***************************************************************************)
Fetching(k) == {t \in Callers : caller[t].pc = "fetching" /\ caller[t].key = k}

\* The callers that joined fetch number f: the one that started it and the
\* ones that waited for it.
Joined(t) == caller[t].flight # 0

\* C4: callers of the same key that find no unexpired cached value share one
\* fetch (at most one fetch_func() call per key is in flight, and a waiter
\* belongs to it), and when that fetch succeeds every one of them returns the
\* value the fetch produced.
C4_SingleFlight ==
    /\ \A k \in Keys : Cardinality(Fetching(k)) <= 1
    /\ \A t \in Callers :
          (Joined(t) /\ caller[t].pc = "returned"
                     /\ flights[caller[t].flight] = "returned")
              => caller[t].result = caller[t].flight

\* C5: when the fetch of a key fails, every caller that waited for it gets
\* the same failure as the fetching caller: none of them returns a value or
\* None as if the call had succeeded.
C5_FailurePropagation ==
    \A t \in Callers :
        (Joined(t) /\ flights[caller[t].flight] = "raised"
                   /\ caller[t].pc \in {"returned", "raised"})
            => caller[t].pc = "raised"

(***************************************************************************)
(* Properties of the circuit breaker.                                      *)
(***************************************************************************)
\* The breaker is Open and the cool-down since the last recorded failure has
\* not elapsed.
CoolingDown ==
    /\ cb_state = "OPEN"
    /\ last_failure_time # None
    /\ now - last_failure_time < timeout

\* The breaker is Open and the cool-down has elapsed.
CooledDown ==
    /\ cb_state = "OPEN"
    /\ last_failure_time # None
    /\ now - last_failure_time >= timeout

\* The step made a call: it invoked the wrapped function or was rejected.
CallMade == cb_event'.kind \in {"invoked", "rejected"}

\* C6: the failure that completes a run of failure_threshold failing calls
\* leaves the breaker Open, and a call made while the breaker is Open with the
\* cool-down not elapsed is rejected (HTTP 503) without invoking the wrapped
\* function and without changing the breaker.
C6_FailFast ==
    [][/\ (cb_event'.kind = "raised" /\ streak' >= failure_threshold)
              => cb_state' = "OPEN"
       /\ (CoolingDown /\ CallMade)
              => /\ cb_event'.kind = "rejected"
                 /\ UNCHANGED <<inflight, cb_state, failure_count,
                                last_failure_time>>]_vars

C6_Witness ==
    /\ cb_event.kind = "rejected"
    /\ cb_state = "OPEN"
    /\ streak >= failure_threshold
    /\ InflightTotal = 0

\* The first half of C7: a call made when the breaker is Open and the
\* cool-down has elapsed moves it to HalfOpen and invokes the function.
ProbeAdmitted ==
    (CooledDown /\ CallMade)
        => /\ cb_state' = "HALF_OPEN"
           /\ cb_event' = [kind |-> "invoked", tag |-> "PROBE"]
           /\ inflight'["PROBE"] = inflight["PROBE"] + 1

HalfOpenCallFails ==
    cb_event'.kind = "raised" /\ cb_event'.tag \in {"PROBE", "HALF_OPEN"}

\* C8 as claimed: when a call made in HalfOpen fails, the breaker returns to
\* Open and its failure counter is reset to 1.
C8_Original ==
    [][HalfOpenCallFails => (cb_state' = "OPEN" /\ failure_count' = 1)]_vars

\* C8 as amended: when a call made in HalfOpen fails while the breaker is
\* still HalfOpen, the breaker returns to Open and its failure counter is
\* incremented by one, which leaves it above the threshold.
C8_HalfOpenFailure ==
    [][(HalfOpenCallFails /\ cb_state = "HALF_OPEN")
          => /\ cb_state' = "OPEN"
             /\ failure_count' = failure_count + 1
             /\ failure_count' > failure_threshold]_vars

C8_Witness ==
    /\ cb_event = [kind |-> "raised", tag |-> "PROBE"]
    /\ cb_state = "OPEN"
    /\ failure_count = failure_threshold + 1

\* C9: the breaker moves from Closed to Open only when failure_threshold
\* calls have failed with no successful call between them.
C9_ConsecutiveFailures ==
    [][(cb_state = "CLOSED" /\ cb_state' = "OPEN")
          => streak' >= failure_threshold]_vars

(***************************************************************************)
(* Properties of the notification throttle.                                *)
(***************************************************************************)
\* C10: two notifications for the same (subscriber, symbol) pair are never
\* dispatched less than the configured interval apart, whatever connects,
\* disconnects and anomaly checks happen between them.
C10_ThrottleInvariant ==
    [][\A p \in AlertSubscriptions :
          (sent_at[p] # None /\ sent_at'[p] # sent_at[p])
              => sent_at'[p] - sent_at[p] >= notification_interval]_vars

(***************************************************************************)
(* Properties of can_send_notification.                                    *)
(***************************************************************************)
CalledOn(p, i) == CanNotifyCall(p[1], p[2], i)

\* C11: a can_send_notification call returns True when no earlier call on
\* the pair returned True, False when made less than its interval after the
\* latest call on the pair that returned True, and True when made at least
\* the interval after it; a call that returns True records `now` as the
\* pair's last notification and a call that returns False changes no
\* pair's last notification.
C11_CanNotify ==
    [][\A p \in AlertSubscriptions, i \in Intervals :
          CalledOn(p, i) =>
             /\ cn_call'.result =
                    (sent_at[p] = None \/ now - sent_at[p] >= i)
             /\ cn_call'.result =>
                    LastNotification(notification_history', p[1], p[2]) = now
             /\ ~cn_call'.result =>
                    \A q \in AlertSubscriptions :
                       LastNotification(notification_history', q[1], q[2])
                          = LastNotification(notification_history, q[1], q[2])
      ]_vars

C11_Witness ==
    /\ cn_call.user # NoUser
    /\ cn_call.result
    /\ cn_call.since # None
    /\ now - cn_call.since = cn_call.interval

\* C12: of the can_send_notification calls made on one pair at one instant,
\* whatever their order, at most one returns True.
C12_AtomicCheckAndSet ==
    \A p \in AlertSubscriptions : granted_now[p] <= 1

C12_Witness ==
    /\ cn_call.user # NoUser
    /\ ~cn_call.result
    /\ cn_call.since = now
    /\ granted_now[<<cn_call.user, cn_call.symbol>>] = 1

(***************************************************************************)
(* Properties of the volume analysis.  The claims speak of the mean and    *)
(* the population standard deviation of the 19 samples before the latest;  *)
(* with T their total and Q the sum of (19 v - T)^2 over them,             *)
(*   mean = T / 19,  stddev^2 = Q / 19^3,                                  *)
(* so that for a latest volume c                                           *)
(*   c / mean >= num / den    iff  19 c den >= num T          (T > 0)      *)
(*   c > mean + 2 stddev      iff  19 c > T and 19 (19 c - T)^2 > 4 Q.     *)
(***************************************************************************)
Analysed == an.pc = "done" /\ Len(an.window) >= min_samples

Preceding(w) == [i \in 1..(min_samples - 1) |-> w[Len(w) - min_samples + i]]

LastTwenty(w) == [i \in 1..min_samples |-> w[Len(w) - min_samples + i]]

PrecedingTotal(w) == SumSeq(Preceding(w))

PrecedingSqDev(w) ==
    SumSeq([i \in 1..(min_samples - 1) |->
              ((min_samples - 1) * Preceding(w)[i] - PrecedingTotal(w))
                 * ((min_samples - 1) * Preceding(w)[i] - PrecedingTotal(w))])

MultiplierAtLeast(w, th) ==
    IF PrecedingTotal(w) = 0 THEN 0 >= th.num
    ELSE (min_samples - 1) * Latest(w) * th.den >= th.num * PrecedingTotal(w)

Outlier(w) ==
    /\ (min_samples - 1) * Latest(w) > PrecedingTotal(w)
    /\ (min_samples - 1)
          * ((min_samples - 1) * Latest(w) - PrecedingTotal(w))
          * ((min_samples - 1) * Latest(w) - PrecedingTotal(w))
       > 4 * PrecedingSqDev(w)

\* C13: on a window of at least 20 samples the anomaly flag is true exactly
\* when the multiplier (latest volume over the mean of the 19 samples before
\* it, 0 when that mean is 0) reaches the threshold and the latest volume
\* exceeds that mean by more than two population standard deviations; the
\* verdict carries that mean and that deviation.
C13_AnomalyFlag ==
    Analysed =>
       /\ ~verdict.absent
       /\ verdict.is_anomaly
             = (MultiplierAtLeast(an.window, an.threshold) /\ Outlier(an.window))
       /\ verdict.current_volume = Latest(an.window)
       /\ verdict.samples = min_samples - 1
       /\ verdict.vol_sum = PrecedingTotal(an.window)
       /\ verdict.sq_dev = PrecedingSqDev(an.window)

\* The example of the claim: volumes [100]*19 then 500, threshold 2.0:
\* multiplier 5, stddev 0, flag true.
C13_Witness ==
    /\ Analysed
    /\ Len(an.window) = min_samples
    /\ \A i \in 1..(min_samples - 1) : an.window[i] = 100
    /\ Latest(an.window) = 500
    /\ an.threshold = [num |-> 2, den |-> 1]
    /\ verdict.current_volume * verdict.samples = 5 * verdict.vol_sum
    /\ verdict.sq_dev = 0
    /\ verdict.is_anomaly

LatestEqualsAverage(w) ==
    (min_samples - 1) * Latest(w) = PrecedingTotal(w)

\* C14: on a 20-sample window whose latest volume equals the mean of the 19
\* before it, the flag is false for every threshold.
C14_AverageIsNoAnomaly ==
    (Analysed /\ Len(an.window) = min_samples /\ LatestEqualsAverage(an.window))
       => (~verdict.absent /\ ~verdict.is_anomaly)

C14_Witness ==
    /\ Analysed
    /\ Len(an.window) = min_samples
    /\ LatestEqualsAverage(an.window)
    /\ an.threshold.num < 0
    /\ verdict.sq_dev > 0
    /\ ~verdict.is_anomaly

\* C15: the result is absent exactly when the window has fewer than 20
\* samples, and the verdict on a longer window is the verdict on its last 20
\* samples.
C15_LastTwentyOnly ==
    an.pc = "done" =>
       /\ verdict.absent = (Len(an.window) < min_samples)
       /\ Len(an.window) >= min_samples =>
             verdict = AnalyzeVolumeAnomaly(LastTwenty(an.window), an.threshold)

C15_Witness ==
    /\ Analysed
    /\ Len(an.window) = fetch_limit
    /\ an.window[1] # an.window[fetch_limit - min_samples + 1]
    /\ verdict.is_anomaly

(***************************************************************************)
(* Properties of retry_with_backoff.                                       *)
(***************************************************************************)
RetryDone == rt.pc \in {"returned", "raised"}

RetrySafe ==
    /\ rt.invocations <= rt.max_retries + 1
    /\ rt.pc = "returned" =>
          /\ rt.invocations = rt.attempt + 1
          /\ rt.last_exception.attempt = rt.attempt - 1
    /\ rt.pc = "raised" =>
          /\ rt.invocations = rt.max_retries + 1
          /\ rt.last_exception.attempt = rt.max_retries
          /\ rt.last_exception.kind # "none"

\* C16: a retry_with_backoff call ends; it calls func at most
\* max_retries + 1 times; when it returns, the returning attempt is the
\* first that did not fail and the last call of func; when it raises, every
\* one of the max_retries + 1 attempts failed and the exception is the one
\* of the last attempt.
C16_RetryTerminates == []RetrySafe /\ <>RetryDone

C16_Witness ==
    /\ rt.pc = "raised"
    /\ rt.max_retries = 3
    /\ rt.invocations = 4
    /\ rt.last_exception = [attempt |-> 3, kind |-> "upstream"]

\* The delay the claim gives for the sleep after failed attempt k.
ClaimedDelay(k) ==
    LET grown[i \in 0..k] ==
            IF i = 0 THEN rt.base_delay ELSE grown[i - 1] * rt.backoff_factor
    IN IF grown[k] < rt.max_delay THEN grown[k] ELSE rt.max_delay

\* C17: the k-th sleep of a retry_with_backoff call (k from 0) follows
\* failed attempt k and lasts min(base_delay * backoff_factor^k, max_delay),
\* never more than max_delay; there is one sleep per failed attempt except
\* the final one, and none after a success.
C17_BackoffDelays ==
    /\ \A k \in 1..Len(rt.slept) :
          /\ rt.slept[k] = ClaimedDelay(k - 1)
          /\ rt.slept[k] <= rt.max_delay
    /\ rt.pc = "calling" => Len(rt.slept) = rt.attempt
    /\ rt.pc = "sleeping" =>
          /\ Len(rt.slept) = rt.attempt + 1
          /\ rt.last_exception.attempt = rt.attempt
          /\ rt.attempt < rt.max_retries
    /\ rt.pc = "returned" => Len(rt.slept) = rt.attempt
    /\ rt.pc = "raised" => Len(rt.slept) = rt.max_retries

C17_Witness ==
    /\ rt.pc = "raised"
    /\ Len(rt.slept) = 3
    /\ rt.slept = <<1, 2, 3>>
    /\ rt.base_delay * rt.backoff_factor * rt.backoff_factor > rt.max_delay

\* C18: when the breaker rejects an attempt of retry_with_backoff with its
\* 503, the call raises it at once: it neither sleeps nor calls func again.
C18_RejectionNotRetried ==
    rt.last_exception.kind = "503" => rt.pc = "raised"

(***************************************************************************)
(* Properties of the cache.                                                *)
(***************************************************************************)
\* C19: a get made later than the entry's expiry time returns None and
\* removes the entry; a get made before it returns the stored value and
\* leaves the cache as it was; a get returns no value whose expiry time has
\* passed.
C19_CacheExpiry ==
    [][\A k \in Keys :
          CacheGetCall(k) =>
             /\ (k \in DOMAIN cache /\ now > cache[k].expires_at) =>
                    (cache_call'.result = None /\ k \notin DOMAIN cache')
             /\ (k \in DOMAIN cache /\ now < cache[k].expires_at) =>
                    (cache_call'.result = cache[k].value /\ cache' = cache)
             /\ cache_call'.result # None =>
                    (k \in DOMAIN cache /\ now <= cache[k].expires_at)
      ]_vars

C19_Witness ==
    /\ cache_call.op = "get"
    /\ cache_call.had
    /\ cache_call.result = None
    /\ cache_call.key \notin DOMAIN cache

Unexpired(k) == k \in DOMAIN cache /\ now <= cache[k].expires_at

\* C20: get_aggregated_data returns the value of an unexpired entry of its
\* key without calling fetch_func; a fetch that returns stores its result
\* under the key until ttl later, so that calls made meanwhile return it
\* without fetching; a fetch that raises leaves the cache as it was.
C20_GetOrFetch ==
    [][\A t \in Callers :
          /\ \A k \in Keys :
                (AggCall(t, k) /\ Unexpired(k)) =>
                   /\ caller'[t].pc = "returned"
                   /\ caller'[t].result = cache[k].value
                   /\ flights' = flights
          /\ FetchReturns(t) =>
                /\ caller'[t].result = caller[t].flight
                /\ cache'[caller[t].key] =
                      [value |-> caller[t].flight, expires_at |-> now + Ttl]
          /\ FetchRaises(t) => cache' = cache
      ]_vars

C20_Witness ==
    \E t \in Callers :
       /\ caller[t].pc = "returned"
       /\ caller[t].flight = 0
       /\ caller[t].result # None
       /\ flights[caller[t].result] = "returned"
       /\ Unexpired(caller[t].key)
       /\ cache[caller[t].key].value = caller[t].result

(***************************************************************************)
(* Properties of the cache key derivation.                                 *)
(***************************************************************************)
ItemSet(q) == {q[i] : i \in 1..Len(q)}

\* The items of a set listed by ascending name.
ByName(items) ==
    CHOOSE q \in KwargLists :
        /\ ItemSet(q) = items
        /\ \A i, j \in 1..Len(q) : i < j => LexLess(q[i].name, q[j].name)

RECURSIVE Concat(_)
Concat(parts) == IF parts = <<>> THEN <<>> ELSE Head(parts) \o Concat(Tail(parts))

\* The key string of a prefix, positional arguments and a set of items: the
\* prefix, then ":" and the text of each positional argument, then ":" and
\* name ":" value for each item by ascending name.
ClaimedKeyString(prefix, args, items) ==
    LET sorted == ByName(items) IN
    prefix
      \o Concat([i \in 1..Len(args) |-> <<Colon>> \o Str(args[i])])
      \o Concat([i \in 1..Len(sorted) |->
                    <<Colon>> \o sorted[i].name \o <<Colon>>
                        \o Str(sorted[i].value)])

IsHexDigest(h) ==
    /\ Len(h) = hexdigest_len
    /\ \A i \in 1..Len(h) : h[i] \in (48..57) \cup (97..102)

\* C21: get_cache_key is deterministic and independent of the order in
\* which the named parameters are supplied: two calls with the same prefix,
\* positional arguments and set of name/value pairs return the same key.  A
\* key string of at most 200 characters is the key; a longer one is replaced
\* by the prefix, ":" and a hash of the key string of fixed length.
C21_KeyDerivation ==
    ck.pc \in {"called", "again"} =>
        LET ks == ClaimedKeyString(ck.prefix, ck.args, ItemSet(ck.kwargs)) IN
            /\ ck.pc = "again" => ck.key2 = ck.key
            /\ Len(ks) <= key_length_limit => ck.key = ks
            /\ Len(ks) > key_length_limit =>
                   /\ ck.key = ck.prefix \o <<Colon>> \o Md5Hex(ks)
                   /\ IsHexDigest(Md5Hex(ks))

\* Two named parameters supplied in one order and then in the other, with a
\* key string longer than the limit.
C21_Witness ==
    /\ ck.pc = "again"
    /\ Len(ck.kwargs) = 2
    /\ ck.kwargs2 # ck.kwargs
    /\ Len(ck.key) = Len(ck.prefix) + 1 + hexdigest_len
    /\ Len(ClaimedKeyString(ck.prefix, ck.args, ItemSet(ck.kwargs))) > key_length_limit

(***************************************************************************)
(* Properties of the polling service.                                      *)
(***************************************************************************)
\* C22: start() is idempotent: after any number of start() calls with no
\* stop() between them exactly one price loop task and one alert loop task
\* have been created, and a start() while the service runs changes nothing.
C22_StartIdempotent ==
    /\ start_calls >= 1 => spawned = [price |-> 1, alert |-> 1]
    /\ start_calls = 0 => spawned = [price |-> 0, alert |-> 0]
    /\ spawned.price = 0 <=> pl.pc = "none"
    /\ spawned.alert = 0 <=> vl.pc = "none"

\* start() was called a second time while the loops were running.
C22_Witness ==
    /\ start_calls >= 2
    /\ is_running
    /\ pl.pc \notin {"none", "done"}
    /\ vl.pc \notin {"none", "done"}

Stopped == ~is_running /\ spawned.price > 0

MidIteration(task) == task.pc \in {"symbols", "broadcast", "subs", "dispatch"}

\* A step of a loop task leaves the loop only at the test of the flag, with
\* the flag cleared, and a task that finds the flag cleared at the test
\* leaves; stop() itself moves no task and ends no delivery.
ExitsOnlyAtCheck(task, after) ==
    /\ (after.pc = "done" /\ task.pc # "done")
           => (task.pc = "check" /\ ~is_running)
    /\ (task.pc = "check" /\ ~is_running /\ after # task) => after.pc = "done"
    /\ task.pc = "done" => after = task

C24_LoopResilience ==
    [][\A task \in {<<pl, pl'>>, <<vl, vl'>>} :
          /\ (task[2].failed /\ task[2].pc \in {"sleep", "backoff"})
                 => task[2].pc = "backoff"
          /\ (task[1].failed /\ is_running /\ task[1].pc # "done")
                 => task[2].pc # "done"]_vars

\* C25: the price tick calls the data provider through the circuit breaker:
\* it never invokes fetch_ticker while the breaker is OPEN with the
\* cool-down not elapsed, and the breaker records every provider failure
\* the price tick sees.
C25_ThroughBreaker ==
    [][/\ (PriceFetchReturns \/ PriceFetchFails)
              => ~Rejects(cb_state, last_failure_time, now)
       /\ PriceFetchFails
              => /\ failure_count' = CountOnFailure(failure_count)
                 /\ last_failure_time' = now]_vars

(***************************************************************************)
(* Properties of the alert dispatch.                                       *)
(***************************************************************************)
PushFails == VolSendDone /\ ~ws_open[al.target]

TelegramFails == VolTelegramDone /\ vl'.outcome = "telegram failed"

\* The loop goes on with the subscription after the one it has dispatched.
GoesOn ==
    /\ vl'.todo = Tail(vl.todo)
    /\ vl'.pc = IF Tail(vl.todo) = <<>> THEN "sleep" ELSE "subs"

\* C26: the channels of a dispatch are isolated.  A failed push is followed
\* by the Telegram call for the same subscriber; a failed Telegram call
\* leaves the push as it was; after either failure the loop goes on with
\* the remaining subscriptions of the tick, which ends in its normal sleep
\* with every subscription evaluated.
C26_ChannelIsolation ==
    [][/\ PushFails => (al'.pc = "telegram" /\ al'.user = al.user)
       /\ TelegramFails => (vl'.push = vl.push /\ sent_at' = sent_at)
       /\ VolTelegramDone => GoesOn
       /\ (vl'.pc = "sleep" /\ vl.pc # "sleep") => vl'.todo = <<>>
       /\ vl'.pc = "backoff" => vl'.outcome = "store failed"]_vars

\* The last subscription of a tick whose push failed and whose Telegram
\* message was sent, after an earlier subscription of the tick.
C26_Witness ==
    /\ vl.pc = "sleep"
    /\ vl.push = "failed"
    /\ vl.outcome = "telegram sent"
    /\ Len(AlertRows) > 1

(***************************************************************************)
(* Properties of send_personal_message and of disconnect.                  *)
(***************************************************************************)
\* A write of send_personal_message to user u raises.
SendFails(u) ==
    \/ \E ws \in Sockets :
          /\ HandlerSendDone(ws)
          /\ handler[ws].user = u
          /\ ~ws_open[handler[ws].target]
    \/ BroadcastSendDone /\ bc.cur = u /\ ~ws_open[bc.target]

\* send_personal_message is called for a user who has no session.
SendWithoutSession(u) == BroadcastNext(u) /\ u \notin DOMAIN active_connections

\* C27: send_personal_message never raises to its caller.  When the write
\* fails the call returns with the subscriber disconnected: the session
\* removed, the subscriber in no entry of the reverse index, the throttle
\* state cleared.  For a subscriber without a session the call does nothing.
C27_SendToOne ==
    [][\A u \in Users :
          /\ SendFails(u) =>
                /\ u \notin DOMAIN active_connections'
                /\ \A S \in DOMAIN symbol_subscribers' :
                      u \notin symbol_subscribers'[S]
                /\ u \notin DOMAIN notification_history'
          /\ SendWithoutSession(u) =>
                UNCHANGED <<active_connections, symbol_subscribers,
                            notification_history>>]_vars

SessionDestroyed(u) ==
    u \in DOMAIN active_connections /\ u \notin DOMAIN active_connections'

\* C29: when the session of a subscriber is destroyed, by a disconnect of
\* its endpoint or after a failed write, the throttle entries of the
\* subscriber are removed, for every symbol.
C29_ThrottleCollected ==
    [][\A u \in Users :
          SessionDestroyed(u) => u \notin DOMAIN notification_history']_vars

\* User 1 was notified for both symbols and has since lost the session and
\* with it the throttle entries.
C29_Witness ==
    /\ sent_at[<<1, "BTC">>] # None
    /\ sent_at[<<1, "ETH">>] # None
    /\ 1 \notin DOMAIN active_connections
    /\ 1 \notin DOMAIN notification_history

\* can_send_notification would return True for the pair: no notification
\* is recorded for it, or the interval has passed since the recorded one.
GateOpen(u, S) ==
    \/ u \notin DOMAIN notification_history
    \/ S \notin DOMAIN notification_history[u]
    \/ now - notification_history[u][S] >= notification_interval

\* The step begins the dispatch of a volume_alert.
DispatchBegins ==
    \/ vl.pc = "subs" /\ vl'.pc = "dispatch"
    \/ al.pc = "idle" /\ al'.pc # "idle"

\* C30: a volume_alert is dispatched for a subscription only if its verdict
\* is an anomaly and the throttle gate of its (user, symbol) pair is open;
\* a verdict that is absent or not an anomaly neither consults nor updates
\* the throttle state.
C30_GatedDispatch ==
    [][/\ DispatchBegins =>
              /\ VolAnomaly
              /\ GateOpen(Head(vl.todo)[1], Head(vl.todo)[2])
       /\ VolNoAnomaly => UNCHANGED <<notification_history, sent_at, al>>]_vars

\* A later subscription of the iteration is being dispatched while the
\* first one, never found anomalous, has left no trace in the throttle
\* state.
C30_Witness ==
    /\ vl.pc = "dispatch"
    /\ al.pc = "sending"
    /\ Len(vl.todo) < Len(AlertRows)
    /\ sent_at[Head(vl.todo)] = now
    /\ sent_at[AlertRows[1]] = None
    /\ AlertRows[1][1] \notin DOMAIN notification_history

\* C31: the reverse index never holds a symbol with an empty set of
\* subscribers: every key of symbol_subscribers maps to a non-empty set
\* after every step of the handlers and of the broadcast.
C31_NoEmptyEntry ==
    \A S \in DOMAIN symbol_subscribers : symbol_subscribers[S] # {}

\* The symbol had subscribers when the broadcast began and its entry has
\* been pruned since, while another symbol is still indexed.
C31_Witness ==
    /\ bc.snapshot # {}
    /\ bc.symbol \notin DOMAIN symbol_subscribers
    /\ symbol_subscribers # EmptyMap

\* C32: in every reachable state of the breaker, whatever the interleaving
\* of the calls in flight, state CLOSED implies failure_count below the
\* threshold, and state OPEN or HALF_OPEN implies failure_count at or above
\* the threshold.
C32_StateCounter ==
    /\ cb_state = "CLOSED" => failure_count < failure_threshold
    /\ cb_state \in {"OPEN", "HALF_OPEN"} =>
           failure_count >= failure_threshold

\* A probe has just succeeded and closed the breaker, which had counted
\* failures up to the threshold, while another call is in flight.
C32_Witness ==
    /\ cb_event = [kind |-> "returned", tag |-> "PROBE"]
    /\ cb_state = "CLOSED"
    /\ failure_count = 0
    /\ InflightTotal > 0

\* The invocations of the wrapped function in flight that were admitted
\* after a cool-down: the probes and the calls that entered in HALF_OPEN.
AdmittedAfterCoolDown == inflight["PROBE"] + inflight["HALF_OPEN"]

\* C33: in HALF_OPEN the breaker admits a single probe: of the calls made
\* after the cool-down has elapsed, at most one invocation of the wrapped
\* function is in flight while the breaker is HALF_OPEN.
C33_SingleProbe ==
    cb_state = "HALF_OPEN" => AdmittedAfterCoolDown <= 1

\* The step is a call rejected by the open breaker.
CallRejected == cb_event'.kind = "rejected"

\* The step is the failure of an invocation of the wrapped function.
RealFailure == cb_event'.kind = "raised"

\* C34: a call rejected because the breaker is OPEN leaves state,
\* failure_count and last_failure_time unchanged; last_failure_time is only
\* ever set, to the current time, by the failure of an invocation; so the
\* first call made once the cool-down since that failure has elapsed moves
\* the breaker to HALF_OPEN.
C34_RejectionLeavesBreaker ==
    [][/\ CallRejected =>
              UNCHANGED <<cb_state, failure_count, last_failure_time>>
       /\ last_failure_time' # last_failure_time =>
              RealFailure /\ last_failure_time' = now
       /\ (CallMade /\ cb_state = "OPEN" /\ last_failure_time # None
             /\ now - last_failure_time >= timeout) =>
              cb_state' = "HALF_OPEN" /\ ~CallRejected]_vars

\* A call has just been rejected one tick before the cool-down since the
\* last failure elapses.
C34_Witness ==
    /\ cb_event.kind = "rejected"
    /\ cb_state = "OPEN"
    /\ last_failure_time # None
    /\ now - last_failure_time = timeout - 1

\* The tasks of a loop that have not returned.
Live(k) == {i \in DOMAIN loops[k] : loops[k][i] # "done"}

\* C35: after any interleaving of start() and stop() with the sleeps of
\* the loops, at most one price loop and at most one alert loop are live.
C35_OneLoopEach ==
    \A k \in LoopKinds : Cardinality(Live(k)) <= 1

\* C36: a broadcast is not aborted by what other tasks do to the registry
\* while it is suspended in a send: a broadcast none of whose own writes
\* failed, so that every change of the index during it was made by a
\* handler, does not raise.
C36_NotAborted ==
    (bc.pc = "ended" /\ bc.failed = {}) => ~bc.raised

\* The live session of the user of the endpoint of socket ws belongs to
\* another, later connection of the same user.
SupersededBy(ws) ==
    /\ handler[ws].user \in DOMAIN active_connections
    /\ active_connections[handler[ws].user].websocket # ws

\* C37: when a user has opened a second connection while the first is
\* still handled, the disconnect at the end of the first connection's
\* endpoint removes neither the session nor the subscriptions nor the
\* throttle entries that belong to the second connection.
C37_SecondConnectionKept ==
    [][\A ws \in Sockets :
          (EndpointDisconnects(ws) /\ SupersededBy(ws)) =>
              /\ handler[ws].user \in DOMAIN active_connections'
              /\ active_connections'[handler[ws].user] =
                     active_connections[handler[ws].user]
              /\ UNCHANGED <<symbol_subscribers, notification_history>>]_vars

\* The step ends the dispatch of an alert none of whose deliveries took
\* place: the push failed or the user had no session, and the Telegram
\* push failed.
AllDeliveriesFailed ==
    /\ vl.pc = "dispatch"
    /\ vl.push \in {"failed", "no session"}
    /\ vl'.outcome = "telegram failed"

\* C38: a throttle slot is consumed only by a delivered notification: when
\* every delivery of an alert has failed, notification_history does not
\* hold the time of that dispatch for the pair, so the alert is attempted
\* again at the next anomaly tick.
C38_SlotOnlyOnDelivery ==
    [][AllDeliveriesFailed =>
          LET u == Head(vl.todo)[1]
              S == Head(vl.todo)[2]
          IN  ~(/\ u \in DOMAIN notification_history'
                /\ S \in DOMAIN notification_history'[u]
                /\ notification_history'[u][S] = sent_at[<<u, S>>])]_vars

\* The step is a call of caller t for key k that finds neither a fetch of
\* the key in flight nor an unexpired cached value.
CallsAfresh(t, k) ==
    /\ caller[t].pc = "idle"
    /\ caller'[t].pc # "idle"
    /\ caller'[t].key = k
    /\ Fetching(k) = {}
    /\ CacheGet(cache, k, now) = None

====
